---- MODULE Spec2Model ----
(***************************************************************************)
(* A model of gemini-ask (src/gemini_ask/gemini_automation.py): the        *)
(* correlated command client over one duplex channel (_send_command,       *)
(* connect), the ask_question orchestrator with its response monitor, and  *)
(* the text heuristics (_is_response_complete, _clean_response_text,       *)
(* _validate_response).  Texts are TLA+ strings used as character          *)
(* sequences (Len, SubSeq, \o).                                            *)
(***************************************************************************)
EXTENDS Integers, Sequences, FiniteSets, TLC

VARIABLES
    ws,            \* self.ws: "None" or "open"
    message_id,    \* self.message_id
    minimized,     \* self.minimized (constructor argument)
    sent,          \* what ws.send has put on the channel, in order
    inbox,         \* messages the peer has queued, read by ws.recv
    pcSend,        \* per logical flow: position inside _send_command
    command_id,    \* per flow: local command_id of the call in progress
    response,      \* per flow: the message the call returned
    lastRead,      \* per flow: the message ws.recv gave to the call last
    connectPc,     \* position inside connect()
    connectStep,   \* number of commands connect() has issued so far
    connectError,  \* exception kind the last connect() raised, or "none"
    sendError,     \* per flow: exception kind the call raised, or "none"
    screenshot_path, \* self.screenshot_path is set (constructor argument)
    closePc,       \* position inside close()
    answered       \* places in the transport log of the commands the peer
                   \* has replied to, kept where calls overlap

VARIABLES
    askPc,             \* position inside ask_question
    askError,          \* exception kind ask_question raised, or "none"
    askResult,         \* the string ask_question returned
    question,          \* the question argument
    modified_question, \* the question with the system prompt appended
    selector,          \* index into input_selectors of the current wait
    waitPc,            \* position inside wait_for_element
    polls,             \* querySelector polls of the current wait_for_element
    input_node_id,     \* node the input search found, 0 for None
    typed,             \* characters of modified_question dispatched so far
    issued,            \* the commands this call has sent, as {method, phase}
    page_changed,      \* what _detect_page_change returned
    question_node_id,  \* phase 2 result, 0 for None
    response_node_id,  \* phase 3 result, 0 for None
    last_length,       \* monitor state
    last_text,         \* monitor state
    stable_count,      \* monitor state
    pollCount,         \* iterations of the monitoring loop so far
    verdict,           \* how the monitor ended: "complete", "partial", "none"
    final_response,    \* what _monitor_response_completion returned
    dispatched,        \* the commands of steps 2-4 (focus, typing, Enter), in order
    faulted,           \* a _send_command of this call raised a transport exception
    max_observed,      \* history: the longest text a poll of this call observed
    same_polls         \* history: how many of the latest polls in a row
                       \* observed exactly last_text (counted up to six);
                       \* both are kept where the monitor runs on its own

askVars == <<askPc, askError, askResult, question, modified_question,
             selector, waitPc, polls, input_node_id, typed, issued,
             page_changed, question_node_id, response_node_id, last_length,
             last_text, stable_count, pollCount, verdict, final_response,
             dispatched, faulted, max_observed, same_polls>>

VARIABLES
    fnPc,        \* "input", "cleaned" or "validated"
    fnQuestion,  \* the question argument
    fnText,      \* the answer / response argument
    fnCleaned,   \* result of _clean_response_text
    fnValid,     \* result of _validate_response
    fnComplete   \* result of _is_response_complete

fnVars == <<fnPc, fnQuestion, fnText, fnCleaned, fnValid, fnComplete>>

VARIABLES
    detPc,             \* position inside _detect_page_change
    detectResult,      \* what _detect_page_change returned
    clock,             \* seconds since the detector script started
    bodyTextLength,    \* document.body.textContent.length of the page
    userQueryLength,   \* text length of the first user-query element, 0 if none
    mutated,           \* the page has changed since the script started
    initialTextLength, \* the script's initialTextLength
    changeDetected,    \* the script's changeDetected
    detectedAt,        \* clock of the check that set changeDetected, -1 before
    timeoutArmed,      \* the timer timeoutId is pending
    stabilizeDue,      \* due time of the pending stabilization timer, -1 if none
    promise            \* "pending", "true" or "false"

detectVars == <<detPc, detectResult, clock, bodyTextLength, userQueryLength,
                mutated, initialTextLength, changeDetected, detectedAt,
                timeoutArmed, stabilizeDue, promise>>

VARIABLES
    dom,               \* the page's elements in document order
    questionText,      \* the question the locator was given
    locPc,             \* "phase2", "phase3", "walk", "within", "found", "failed"
    start_node_id,     \* what _find_question_element returned, 0 for None
    question_length,   \* text length of the question element
    current_node_id,   \* _walk_up_dom_tree: the node under examination
    level,             \* _walk_up_dom_tree: its distance from the start node
    common_parent_id,  \* what _walk_up_dom_tree returned, 0 for None
    located,           \* what _find_response_element returned, 0 for None
    verifications      \* the latest iteration's calls of _verify_common_parent

domVars == <<dom, questionText, locPc, start_node_id, question_length,
             current_node_id, level, common_parent_id, located,
             verifications>>

pageVars == <<detectVars, domVars>>

clientVars == <<ws, message_id, minimized, sent, inbox, pcSend, command_id,
                response, lastRead, connectPc, connectStep, connectError,
                sendError, screenshot_path, closePc, answered>>

----------------------------------------------------------------------------
(* Bounds of the model *)

MaxCalls == 5      \* entries of the transport log of one client
MaxInbox == 1      \* messages queued on the channel at once
MaxId == 2         \* ids the peer may put in a message
MaxPolls == 13     \* iterations of the monitoring loop before its deadline

----------------------------------------------------------------------------
(* The protocol client *)

Callers == {"connect", "user", "close"}

NoMsg == [hasId |-> FALSE, id |-> 0, ok |-> FALSE, none |-> TRUE]

Event == [hasId |-> FALSE, id |-> 0, ok |-> TRUE, none |-> FALSE]

Reply(i, b) == [hasId |-> TRUE, id |-> i, ok |-> b, none |-> FALSE]

\* the ids a caller presets on a command: none (0), or 1
PresetIds == {0, 1}

Messages == {Event} \cup {Reply(i, b) : i \in 1..MaxId, b \in BOOLEAN}

\* what the transport can do to a blocked ws.recv: the channel is closed,
\* or the data read is not JSON
Faults == {"closed", "malformed"}

\* the exception ws.recv or json.loads raises; _send_command has no handler
ExceptionOf(fault) ==
    IF fault = "closed" THEN "WebSocketConnectionClosedException"
    ELSE "JSONDecodeError"

\* the log entry of websocket.create_connection
Opened == [id |-> 0, auto |-> FALSE, method |-> "create_connection",
           by |-> "connect"]

\* the log entry of ws.close()
Closed == [id |-> 0, auto |-> FALSE, method |-> "ws.close", by |-> "close"]

\* 'id' in response and response['id'] == command_id
IsOurResponseAnyId(m, cid) == m.hasId

IsOurResponse(m, cid) == m.hasId /\ m.id = cid

\* the connection test that lets every call through
NotConnectedNever(w) == FALSE

\* not self.ws
NotConnected(w) == w = "None"

NoCallInFlight == \A c \in Callers : pcSend[c] # "recv"

InitClient ==
    /\ ws = "None"
    /\ message_id = 1
    /\ minimized \in BOOLEAN
    /\ screenshot_path \in BOOLEAN
    /\ sent = <<>>
    /\ inbox = <<>>
    /\ pcSend = [c \in Callers |-> "idle"]
    /\ command_id = [c \in Callers |-> 0]
    /\ response = [c \in Callers |-> NoMsg]
    /\ lastRead = [c \in Callers |-> NoMsg]
    /\ sendError = [c \in Callers |-> "none"]
    /\ connectPc = "idle"
    /\ connectStep = 0
    /\ connectError = "none"
    /\ closePc = "idle"
    /\ answered = {}

\* message_id after a command was given an id
NextMessageIdSkip(mid) == mid + 2

NextMessageId(mid) == mid + 1

\* a function over the flows that holds v for flow c and the idle value
\* for the others, whose earlier calls are over and their frames gone
OnlyCall(c, v, idle) == [x \in Callers |-> IF x = c THEN v ELSE idle]

\* _send_command up to and including ws.send; presetId = 0 stands for a
\* command without an 'id' key
send_command(c, presetId, method) ==
    /\ NoCallInFlight
    /\ IF NotConnected(ws)
       THEN /\ pcSend' = OnlyCall(c, "raised", "idle")
            /\ sendError' = OnlyCall(c, "ConnectionError", "none")
            /\ command_id' = OnlyCall(c, 0, 0)
            /\ UNCHANGED <<message_id, sent>>
       ELSE /\ Len(sent) < MaxCalls
            /\ LET auto == presetId = 0
                   cid == IF auto THEN message_id ELSE presetId
               IN /\ message_id' = IF auto THEN NextMessageId(message_id)
                                   ELSE message_id
                  /\ command_id' = OnlyCall(c, cid, 0)
                  /\ sent' = Append(sent, [id |-> cid, auto |-> auto,
                                           method |-> method, by |-> c])
            /\ pcSend' = OnlyCall(c, "recv", "idle")
            /\ sendError' = OnlyCall(c, "none", "none")
    /\ response' = OnlyCall(c, NoMsg, NoMsg)
    /\ lastRead' = OnlyCall(c, NoMsg, NoMsg)
    /\ UNCHANGED <<ws, minimized, screenshot_path, inbox>>
    /\ UNCHANGED <<pageVars, askVars, fnVars, answered>>

\* one iteration of the read loop of _send_command
recv(c) ==
    /\ pcSend[c] = "recv"
    /\ inbox # <<>>
    /\ LET m == Head(inbox)
       IN /\ inbox' = Tail(inbox)
          /\ lastRead' = [lastRead EXCEPT ![c] = m]
          /\ IF IsOurResponse(m, command_id[c])
             THEN /\ response' = [response EXCEPT ![c] = m]
                  /\ pcSend' = [pcSend EXCEPT ![c] = "returned"]
             ELSE UNCHANGED <<response, pcSend>>
    /\ UNCHANGED <<ws, message_id, minimized, screenshot_path, sent,
                   command_id, sendError>>
    /\ UNCHANGED <<pageVars, askVars, fnVars, answered>>

\* the read loop of _send_command meets a fault: ws.recv or json.loads
\* raises, and the exception leaves _send_command as it is
recv_fails(c, fault) ==
    /\ pcSend[c] = "recv"
    /\ inbox = <<>>
    /\ pcSend' = [pcSend EXCEPT ![c] = "raised"]
    /\ sendError' = [sendError EXCEPT ![c] = ExceptionOf(fault)]
    \* nothing was returned and the loop's last message is gone with it
    /\ lastRead' = [lastRead EXCEPT ![c] = NoMsg]
    /\ UNCHANGED <<message_id, minimized, screenshot_path, sent, inbox,
                   command_id, response>>
    /\ UNCHANGED <<pageVars, askVars, fnVars, answered>>

\* the peer queues an event or a reply on the channel.  What arrives
\* between two calls is read by the next call, as if it had arrived just
\* after that call's ws.send: messages are queued while a call waits.
Deliver(m) ==
    /\ ws = "open"
    /\ ~NoCallInFlight
    /\ Len(inbox) < MaxInbox
    /\ inbox' = Append(inbox, m)
    /\ UNCHANGED <<ws, message_id, minimized, screenshot_path, sent, pcSend,
                   command_id, response, lastRead, sendError>>
    /\ UNCHANGED <<pageVars, askVars, fnVars, answered>>

\* the commands connect() issues after create_connection: the two domains,
\* then _minimize_window when self.minimized
ConnectProgram ==
    <<"Runtime.enable", "DOM.enable">> \o
    (IF minimized
     THEN <<"Browser.enable", "Browser.getWindowForTarget",
            "Browser.setWindowBounds">>
     ELSE <<>>)

DiscoveryOutcomes == {"ok", "unreachable", "no_tab", "refused"}

\* the exception raised inside the try block of connect()
RaisedInConnect(outcome) ==
    IF outcome = "no_tab" THEN "ElementNotFoundError"
    ELSE IF outcome = "unreachable" THEN "ConnectionError"
    ELSE "WebSocketException"

\* the except clauses of connect(): "except Exception" turns every
\* exception raised inside the try block into ConnectionError
ConnectExcept(kind) == "ConnectionError"

\* a connect() that restarts the numbering on every new connection
MessageIdResetOnConnect(mid) == 1

\* self.message_id after websocket.create_connection: connect() does not
\* assign it
MessageIdOnConnect(mid) == mid

\* connect() up to and including websocket.create_connection
ConnectBegin(outcome) ==
    /\ connectPc # "enabling"
    /\ closePc = "idle"
    /\ NoCallInFlight
    /\ IF outcome = "ok"
       THEN /\ Len(sent) < MaxCalls
            /\ ws' = "open"
            /\ sent' = Append(sent, Opened)
            /\ message_id' = MessageIdOnConnect(message_id)
            /\ connectPc' = "enabling"
            /\ connectError' = "none"
       ELSE /\ connectPc' = "failed"
            /\ connectError' = ConnectExcept(RaisedInConnect(outcome))
            /\ UNCHANGED <<ws, sent, message_id>>
    /\ connectStep' = 0
    /\ UNCHANGED <<minimized, screenshot_path, inbox, pcSend,
                   command_id, response, lastRead, sendError, closePc>>
    /\ UNCHANGED <<pageVars, askVars, fnVars, answered>>

\* connect() issues its next command once the previous one has returned
ConnectSend ==
    /\ connectPc = "enabling"
    /\ connectStep < Len(ConnectProgram)
    /\ connectStep > 0 => pcSend["connect"] = "returned"
    \* window_response['result']['windowId'] raises KeyError when absent,
    \* which _minimize_window swallows: no setWindowBounds is sent
    /\ ~(connectStep = 4 /\ ~response["connect"].ok)
    /\ send_command("connect", 0, ConnectProgram[connectStep + 1])
    /\ connectStep' = connectStep + 1
    /\ UNCHANGED <<connectPc, connectError, closePc>>

\* connect() returns True after its last command has returned
ConnectReturn ==
    /\ connectPc = "enabling"
    /\ pcSend["connect"] = "returned"
    /\ \/ connectStep = Len(ConnectProgram)
       \/ connectStep = 4 /\ ~response["connect"].ok
    /\ connectPc' = "connected"
    /\ UNCHANGED <<ws, message_id, minimized, screenshot_path, sent, inbox,
                   pcSend, command_id, response, lastRead, sendError,
                   connectStep, connectError, closePc>>
    /\ UNCHANGED <<pageVars, askVars, fnVars, answered>>

\* connect() blocked inside _send_command reads one message
ConnectRecv ==
    /\ connectPc = "enabling"
    /\ recv("connect")
    /\ UNCHANGED <<connectPc, connectStep, connectError, closePc>>

\* a fault while connect() waits for a reply: from one of the two enables
\* it leaves connect() as ConnectionError with self.ws still set; inside
\* _minimize_window it is swallowed and connect() returns True
ConnectFault(fault) ==
    /\ connectPc = "enabling"
    /\ recv_fails("connect", fault)
    /\ IF connectStep <= 2
       THEN /\ connectPc' = "failed"
            /\ connectError' = ConnectExcept(ExceptionOf(fault))
       ELSE /\ connectPc' = "connected"
            /\ UNCHANGED connectError
    /\ UNCHANGED <<ws, connectStep, closePc>>

\* a direct _send_command call; presetId = 0: the command has no 'id'
UserSend(presetId) ==
    /\ connectPc # "enabling"
    /\ closePc = "idle"
    /\ NoCallInFlight
    /\ send_command("user", presetId, "user.command")
    /\ UNCHANGED <<connectPc, connectStep, connectError, closePc>>

\* get_page_text: the connection test, then one Runtime.evaluate
GetPageText ==
    /\ connectPc # "enabling"
    /\ closePc = "idle"
    /\ NoCallInFlight
    /\ send_command("user", 0, "Runtime.evaluate")
    /\ UNCHANGED <<connectPc, connectStep, connectError, closePc>>

UserRecv ==
    /\ recv("user")
    /\ UNCHANGED <<ws, connectPc, connectStep, connectError, closePc>>

\* a fault while a direct call waits for its reply
UserFault(fault) ==
    /\ recv_fails("user", fault)
    /\ UNCHANGED <<ws, connectPc, connectStep, connectError, closePc>>

PeerDeliver ==
    /\ \E m \in Messages : Deliver(m)
    /\ UNCHANGED <<connectPc, connectStep, connectError, closePc>>

\* _send_command run by thread c while the call of another thread may be
\* under way: the method takes no lock and both calls read the one channel.
\* First "command['id'] = self.message_id"; then, another thread perhaps
\* having run in between, "self.message_id += 1" and ws.send.  The
\* increment is a load and a store: its load saw any value message_id has
\* held since the id was taken.
OverlappingSend(c) ==
    /\ ~NotConnected(ws)
    /\ \/ /\ pcSend[c] \notin {"assigned", "recv"}
          /\ Len(sent) + Cardinality({x \in Callers :
                                         pcSend[x] = "assigned"}) < MaxCalls
          /\ command_id' = [command_id EXCEPT ![c] = message_id]
          /\ pcSend' = [pcSend EXCEPT ![c] = "assigned"]
          /\ sendError' = [sendError EXCEPT ![c] = "none"]
          /\ response' = [response EXCEPT ![c] = NoMsg]
          /\ lastRead' = [lastRead EXCEPT ![c] = NoMsg]
          /\ UNCHANGED <<message_id, sent>>
       \/ /\ pcSend[c] = "assigned"
          /\ \E loaded \in {message_id} \cup (command_id[c]..message_id) :
                 message_id' = NextMessageId(loaded)
          /\ sent' = Append(sent, [id |-> command_id[c], auto |-> TRUE,
                                   method |-> "Runtime.evaluate",
                                   by |-> c])
          /\ pcSend' = [pcSend EXCEPT ![c] = "recv"]
          /\ UNCHANGED <<command_id, sendError, response, lastRead>>
    /\ UNCHANGED <<ws, minimized, screenshot_path, inbox, connectPc,
                   connectStep, connectError, closePc>>
    /\ UNCHANGED <<pageVars, askVars, fnVars, answered>>

\* the peer replies once to the command at place k of the log, or emits
\* an event
PeerAnswers ==
    /\ ~NotConnected(ws)
    /\ Len(inbox) < MaxInbox
    /\ \/ \E k \in DOMAIN sent \ answered : \E b \in BOOLEAN :
              /\ sent[k].auto
              /\ inbox' = Append(inbox, Reply(sent[k].id, b))
              /\ answered' = answered \cup {k}
       \/ /\ ~NoCallInFlight
          /\ inbox' = Append(inbox, Event)
          /\ UNCHANGED answered
    /\ UNCHANGED <<ws, message_id, minimized, screenshot_path, sent, pcSend,
                   command_id, response, lastRead, sendError, connectPc,
                   connectStep, connectError, closePc>>
    /\ UNCHANGED <<pageVars, askVars, fnVars>>

\* close() that forgets to drop the channel object
WsAfterCloseKept(w) == w

\* self.ws after "self.ws.close(); self.ws = None"
WsAfterClose(w) == "None"

\* the end of close(): "if self.ws: self.ws.close(); self.ws = None"
CloseWs ==
    /\ IF NotConnected(ws)
       THEN UNCHANGED <<ws, sent>>
       ELSE /\ Len(sent) < MaxCalls
            /\ sent' = Append(sent, Closed)
            /\ ws' = WsAfterClose(ws)
    /\ closePc' = "idle"

\* close(): with a screenshot path and a channel it first sends
\* Page.captureScreenshot through take_screenshot; otherwise it is done
\* at once
CloseBegin ==
    /\ connectPc # "enabling"
    /\ closePc = "idle"
    /\ NoCallInFlight
    /\ IF screenshot_path /\ ~NotConnected(ws)
       THEN /\ send_command("close", 0, "Page.captureScreenshot")
            /\ closePc' = "screenshot"
       ELSE /\ CloseWs
            /\ UNCHANGED <<message_id, minimized, screenshot_path, inbox,
                           pcSend, command_id, response, lastRead, sendError>>
            /\ UNCHANGED <<pageVars, askVars, fnVars, answered>>
    /\ UNCHANGED <<connectPc, connectStep, connectError>>

\* close() blocked inside take_screenshot reads one message
CloseRecv ==
    /\ closePc = "screenshot"
    /\ recv("close")
    /\ UNCHANGED <<ws, connectPc, connectStep, connectError, closePc>>

\* take_screenshot got its reply; close() goes on to close the channel
CloseFinish ==
    /\ closePc = "screenshot"
    /\ pcSend["close"] = "returned"
    /\ CloseWs
    /\ UNCHANGED <<message_id, minimized, screenshot_path, inbox, pcSend,
                   command_id, response, lastRead, sendError>>
    /\ UNCHANGED <<connectPc, connectStep, connectError>>
    /\ UNCHANGED <<pageVars, askVars, fnVars, answered>>

\* a fault inside take_screenshot is swallowed ("except Exception: return
\* False") and close() goes on to close the channel
CloseFault(fault) ==
    /\ closePc = "screenshot"
    /\ pcSend["close"] = "recv"
    /\ inbox = <<>>
    /\ pcSend' = [pcSend EXCEPT !["close"] = "raised"]
    /\ sendError' = [sendError EXCEPT !["close"] = ExceptionOf(fault)]
    /\ lastRead' = [lastRead EXCEPT !["close"] = NoMsg]
    /\ CloseWs
    /\ UNCHANGED <<message_id, minimized, screenshot_path, inbox,
                   command_id, response>>
    /\ UNCHANGED <<connectPc, connectStep, connectError>>
    /\ UNCHANGED <<pageVars, askVars, fnVars, answered>>

----------------------------------------------------------------------------
(* Text primitives: Python str and re operations on character sequences *)

CharAt(s, i) == SubSeq(s, i, i)

\* str.isspace for one character
IsSpace(c) == c = " " \/ c = "\t" \/ c = "\n"

DigitChars == {"0", "1", "2", "3", "4", "5", "6", "7", "8", "9"}

\* str.isdigit for one character
IsDigit(c) == c \in DigitChars

\* the lower-case form of every upper-case letter
LowerOf ==
     "A" :> "a" @@ "B" :> "b" @@ "C" :> "c" @@ "D" :> "d" @@ "E" :>
     "e" @@ "F" :> "f" @@ "G" :> "g" @@ "H" :> "h" @@ "I" :> "i" @@
     "J" :> "j" @@ "K" :> "k" @@ "L" :> "l" @@ "M" :> "m" @@ "N" :>
     "n" @@ "O" :> "o" @@ "P" :> "p" @@ "Q" :> "q" @@ "R" :> "r" @@
     "S" :> "s" @@ "T" :> "t" @@ "U" :> "u" @@ "V" :> "v" @@ "W" :>
     "w" @@ "X" :> "x" @@ "Y" :> "y" @@ "Z" :> "z"

\* str.lower for one character
LowerChar(c) == IF c \in DOMAIN LowerOf THEN LowerOf[c] ELSE c

RECURSIVE LowerRange(_, _, _)
LowerRange(s, lo, hi) ==
    IF lo > hi THEN ""
    ELSE IF lo = hi THEN LowerChar(CharAt(s, lo))
    ELSE LET mid == (lo + hi) \div 2
         IN LowerRange(s, lo, mid) \o LowerRange(s, mid + 1, hi)

\* str.lower()
Lower(s) == LowerRange(s, 1, Len(s))

\* str.strip()
Strip(s) ==
    IF \A i \in 1..Len(s) : IsSpace(CharAt(s, i)) THEN ""
    ELSE LET first == CHOOSE i \in 1..Len(s) :
                         /\ ~IsSpace(CharAt(s, i))
                         /\ \A j \in 1..(i - 1) : IsSpace(CharAt(s, j))
             last == CHOOSE i \in 1..Len(s) :
                         /\ ~IsSpace(CharAt(s, i))
                         /\ \A j \in (i + 1)..Len(s) : IsSpace(CharAt(s, j))
         IN SubSeq(s, first, last)

RECURSIVE CollapseRange(_, _, _)
CollapseRange(s, lo, hi) ==
    IF lo > hi THEN ""
    ELSE IF lo = hi
    THEN (IF ~IsSpace(CharAt(s, lo)) THEN CharAt(s, lo)
          ELSE IF lo > 1 /\ IsSpace(CharAt(s, lo - 1)) THEN ""
          ELSE " ")
    ELSE LET mid == (lo + hi) \div 2
         IN CollapseRange(s, lo, mid) \o CollapseRange(s, mid + 1, hi)

\* re.sub(r'\s+', ' ', s)
CollapseSpaces(s) == CollapseRange(s, 1, Len(s))

\* p in s
Contains(s, p) ==
    \E i \in 1..(Len(s) - Len(p) + 1) : SubSeq(s, i, i + Len(p) - 1) = p

\* s.startswith(p)
StartsWith(s, p) == Len(p) <= Len(s) /\ SubSeq(s, 1, Len(p)) = p

\* s.endswith(p)
EndsWith(s, p) ==
    Len(p) <= Len(s) /\ SubSeq(s, Len(s) - Len(p) + 1, Len(s)) = p

\* s.find(p) + 1: the first position of p in s, 0 when absent
Find(s, p) ==
    IF Contains(s, p)
    THEN CHOOSE i \in 1..(Len(s) - Len(p) + 1) :
            /\ SubSeq(s, i, i + Len(p) - 1) = p
            /\ \A j \in 1..(i - 1) : SubSeq(s, j, j + Len(p) - 1) # p
    ELSE 0

\* s.replace(p, "", 1)
RemoveFirst(s, p) ==
    LET at == IF Len(p) = 0 THEN 0 ELSE Find(s, p)
    IN IF at = 0 THEN s
       ELSE SubSeq(s, 1, at - 1) \o SubSeq(s, at + Len(p), Len(s))

RECURSIVE RemoveAll(_, _)
\* s.replace(p, ""): non-overlapping occurrences, left to right
RemoveAll(s, p) ==
    LET at == IF Len(p) = 0 THEN 0 ELSE Find(s, p)
    IN IF at = 0 THEN s
       ELSE SubSeq(s, 1, at - 1)
            \o RemoveAll(SubSeq(s, at + Len(p), Len(s)), p)

RECURSIVE Count(_, _)
\* s.count(p) for a non-empty p: non-overlapping occurrences
Count(s, p) ==
    LET at == Find(s, p)
    IN IF at = 0 THEN 0
       ELSE 1 + Count(SubSeq(s, at + Len(p), Len(s)), p)

\* any(char.isdigit() for char in s)
HasDigit(s) == \E i \in 1..Len(s) : IsDigit(CharAt(s, i))

\* len(s.split())
WordCount(s) ==
    Cardinality({i \in 1..Len(s) :
                    /\ ~IsSpace(CharAt(s, i))
                    /\ (i = 1 \/ IsSpace(CharAt(s, i - 1)))})

\* any(word in s for word in words)
ContainsAny(s, words) == \E w \in words : Contains(s, w)

----------------------------------------------------------------------------
(* The heuristics of the response monitor and the sanitizer *)

StableChecks == 6         \* stable polls before the classifier is consulted
PartialFloor == 50        \* a timed-out text longer than this is returned
MaxResponseLen == 10000   \* a longer response is rejected by validation

MathWords == {"what is", "+", "-", "*", "/", "calculate", "solve"}

CodeWords == {"code", "python", "function", "script", "program"}

CodePatterns == {"import ", "def ", "class ", "if __name__"}

\* The backquote cannot be written inside a TLA+ string: the model writes
\* the character as ~, which no text of the model uses otherwise.
Fence == "~~~"

Terminators == {".", "!", "?", Fence, "\"", "'"}

LoadingWords == {"loading", "wait", "processing"}

UiText == {"loading", "wait", "processing", "...", "error"}

\* ui_elements of _clean_response_text, in list order
UiElements ==
    <<"Show thinking", "Copy code", "Copy",
      "Gemini can make mistakes, so double-check it">>

\* any(word in question_lower for word in ['what is', '+', ...])
IsMathQuestion(q) == ContainsAny(Lower(q), MathWords)

\* any(word in question_lower for word in ['code', 'python', ...])
IsCodeQuestion(q) == ContainsAny(Lower(q), CodeWords)

\* the "just the question" test of the classifier
IsJustQuestion(text, q) == Lower(Strip(text)) = Lower(Strip(q))

\* the unclosed code block test
UnclosedFence(text) == Contains(text, Fence) /\ Count(text, Fence) % 2 # 0

\* _is_response_complete without the math override
is_response_complete_no_math_override(text, q) ==
    IF Len(text) < 1 THEN FALSE
    ELSE IF IsJustQuestion(text, q) THEN FALSE
    ELSE IF IsCodeQuestion(q)
    THEN (IF UnclosedFence(text) THEN FALSE
          ELSE IF ContainsAny(text, CodePatterns) THEN TRUE
          ELSE Len(text) > 20)
    ELSE IF \E t \in Terminators : EndsWith(Strip(text), t)
    THEN Len(text) > 10
    ELSE IF /\ Len(Strip(text)) > 2
            /\ Len(Strip(text)) < 50
            /\ WordCount(Strip(text)) <= 5
            /\ ~ContainsAny(Lower(text), LoadingWords)
    THEN TRUE
    ELSE IF Len(text) > 500 THEN TRUE
    ELSE Len(text) > 50

\* _is_response_complete with the math override tried before the "just the
\* question" test
is_response_complete_math_first(text, q) ==
    IF Len(text) < 1 THEN FALSE
    ELSE IF IsMathQuestion(q) /\ Len(Strip(text)) >= 1 /\ HasDigit(text)
    THEN TRUE
    ELSE IF IsJustQuestion(text, q) THEN FALSE
    ELSE IF IsCodeQuestion(q)
    THEN (IF UnclosedFence(text) THEN FALSE
          ELSE IF ContainsAny(text, CodePatterns) THEN TRUE
          ELSE Len(text) > 20)
    ELSE IF \E t \in Terminators : EndsWith(Strip(text), t)
    THEN Len(text) > 10
    ELSE IF /\ Len(Strip(text)) > 2
            /\ Len(Strip(text)) < 50
            /\ WordCount(Strip(text)) <= 5
            /\ ~ContainsAny(Lower(text), LoadingWords)
    THEN TRUE
    ELSE IF Len(text) > 500 THEN TRUE
    ELSE Len(text) > 50

\* _is_response_complete with the fence test dropped
is_response_complete_no_fence_test(text, q) ==
    IF Len(text) < 1 THEN FALSE
    ELSE IF IsJustQuestion(text, q) THEN FALSE
    ELSE IF IsMathQuestion(q) /\ Len(Strip(text)) >= 1 /\ HasDigit(text)
    THEN TRUE
    ELSE IF IsCodeQuestion(q)
    THEN (IF ContainsAny(text, CodePatterns) THEN TRUE
          ELSE Len(text) > 20)
    ELSE IF \E t \in Terminators : EndsWith(Strip(text), t)
    THEN Len(text) > 10
    ELSE IF /\ Len(Strip(text)) > 2
            /\ Len(Strip(text)) < 50
            /\ WordCount(Strip(text)) <= 5
            /\ ~ContainsAny(Lower(text), LoadingWords)
    THEN TRUE
    ELSE IF Len(text) > 500 THEN TRUE
    ELSE Len(text) > 50

is_response_complete(text, q) ==
    IF Len(text) < 1 THEN FALSE
    ELSE IF IsJustQuestion(text, q) THEN FALSE
    ELSE IF IsMathQuestion(q) /\ Len(Strip(text)) >= 1 /\ HasDigit(text)
    THEN TRUE
    ELSE IF IsCodeQuestion(q)
    THEN (IF UnclosedFence(text) THEN FALSE
          ELSE IF ContainsAny(text, CodePatterns) THEN TRUE
          ELSE Len(text) > 20)
    ELSE IF \E t \in Terminators : EndsWith(Strip(text), t)
    THEN Len(text) > 10
    ELSE IF /\ Len(Strip(text)) > 2
            /\ Len(Strip(text)) < 50
            /\ WordCount(Strip(text)) <= 5
            /\ ~ContainsAny(Lower(text), LoadingWords)
    THEN TRUE
    ELSE IF Len(text) > 500 THEN TRUE
    ELSE Len(text) > 50

\* the question part of _clean_response_text
RemoveQuestion(cleaned, q) ==
    IF q = "" THEN cleaned
    ELSE LET question_clean == CollapseSpaces(Strip(q))
         IN IF StartsWith(cleaned, question_clean)
            THEN Strip(SubSeq(cleaned, Len(question_clean) + 1, Len(cleaned)))
            ELSE Strip(RemoveFirst(cleaned, question_clean))

RECURSIVE RemoveUiElements(_, _)
\* for element in ui_elements: cleaned = cleaned.replace(element, "").strip()
RemoveUiElements(cleaned, k) ==
    IF k > Len(UiElements) THEN cleaned
    ELSE RemoveUiElements(Strip(RemoveAll(cleaned, UiElements[k])), k + 1)

\* _clean_response_text that leaves the UI captions in
clean_response_text_keep_ui(raw_text, q) ==
    IF raw_text = "" THEN ""
    ELSE RemoveQuestion(CollapseSpaces(Strip(raw_text)), q)

clean_response_text(raw_text, q) ==
    IF raw_text = "" THEN ""
    ELSE RemoveUiElements(
             RemoveQuestion(CollapseSpaces(Strip(raw_text)), q), 1)

\* _validate_response without the placeholder test
validate_response_no_placeholder(resp, q) ==
    IF Len(resp) < 1 \/ Len(resp) > MaxResponseLen THEN FALSE
    ELSE IF Lower(Strip(resp)) = Lower(Strip(q)) THEN FALSE
    ELSE IF Contains(Lower(resp), Lower(q)) /\ Len(resp) < Len(q) * 2
    THEN FALSE
    ELSE IF IsMathQuestion(q) /\ HasDigit(resp) /\ Len(Strip(resp)) >= 1
    THEN TRUE
    ELSE Len(resp) >= 3

\* _validate_response with the too-short test placed before the math override
validate_response_short_first(resp, q) ==
    IF Len(resp) < 1 \/ Len(resp) > MaxResponseLen THEN FALSE
    ELSE IF Lower(Strip(resp)) = Lower(Strip(q)) THEN FALSE
    ELSE IF Contains(Lower(resp), Lower(q)) /\ Len(resp) < Len(q) * 2
    THEN FALSE
    ELSE IF Len(resp) < 3 THEN FALSE
    ELSE IF IsMathQuestion(q) /\ HasDigit(resp) /\ Len(Strip(resp)) >= 1
    THEN TRUE
    ELSE IF ContainsAny(Strip(Lower(resp)), UiText) /\ Len(resp) < 20 THEN FALSE
    ELSE TRUE

validate_response(resp, q) ==
    IF Len(resp) < 1 \/ Len(resp) > MaxResponseLen THEN FALSE
    ELSE IF Lower(Strip(resp)) = Lower(Strip(q)) THEN FALSE
    ELSE IF Contains(Lower(resp), Lower(q)) /\ Len(resp) < Len(q) * 2
    THEN FALSE
    ELSE IF IsMathQuestion(q) /\ HasDigit(resp) /\ Len(Strip(resp)) >= 1
    THEN TRUE
    ELSE IF Len(resp) < 3 THEN FALSE
    ELSE IF ContainsAny(Strip(Lower(resp)), UiText) /\ Len(resp) < 20 THEN FALSE
    ELSE TRUE

----------------------------------------------------------------------------
(* ask_question: the orchestrator and the response monitor.  A command is  *)
(* one _send_command exchange, recorded in issued; the correlation of its  *)
(* reply is the subject of the client actions above.                       *)

InputTimeout == 5       \* wait_for_element(selector, timeout=5)
PollsPerSecond == 5     \* range(timeout * 5)
NumSelectors == 5       \* len(input_selectors)

DefaultPrompt ==
    "<ATTENTION> never start the canvas mode! write everything always as normal text </ATTENTION>"

\* what _get_system_prompt may resolve to: the default, or a configured text
SystemPrompts == {DefaultPrompt, "Plain text only"}

Questions ==
    { "What is 2+2?",
      "What  is 2+2? ",
      "What is 2+2? ",
      "Write a function that adds two numbers",
      "python code for 2+2",
      "Name a city" }

\* texts the response node may show at a poll
Texts ==
    { "",
      "4",
      "What is 2+2?",
      "What is 2+2? Copy What is 2+2?",
      "Paris",
      "Loading",
      "~~~python\ndef add(a, b):",
      "~~~python\nprint(2+2)",
      "~~~python\ndef add(a, b):\n    return a + b\n~~~",
      "Lyon is a city in France on the Rhone and the Saone rivers",
      "Name a city Lyon is a city in France on the Rhone and the Saone rivers",
      "Write a function that adds two numbers Copy code Show thinking" }

\* what _get_element_text returns: None, or the node's text
NoText == [none |-> TRUE, value |-> ""]

Observations == {NoText} \cup {[none |-> FALSE, value |-> t] : t \in Texts}

\* two node ids are enough to tell equal from different
Nodes == {1, 2}

Cmd(method, phase) == [method |-> method, phase |-> phase]

DetectionPhases == {"phase2", "phase3", "debug", "monitor"}

\* _add_canvas_prevention_prompt
add_canvas_prevention_prompt(original_question, system_prompt) ==
    original_question \o " " \o system_prompt

\* the question detection is given with the augmented text that was typed
SearchQuestionAugmented == modified_question

\* the question ask_question passes to wait_for_response_smart, and that
\* passes on to phases 2, 4 and 5
SearchQuestion == question

\* wait_for_response_smart after phase 1, skipping the "not changed" return
AfterPhase1Always(changed) == "phase2"

\* wait_for_response_smart after phase 1: where ask_question goes next
AfterPhase1(changed) == IF changed THEN "phase2" ELSE "failed"

\* the partial-result test with the classifier's length 500 in place of 50
IsSubstantialLong(text) == text # "" /\ Len(text) > 500

\* last_text and len(last_text) > 50
IsSubstantial(text) == text # "" /\ Len(text) > PartialFloor

\* _is_response_complete on the texts and questions of the model, computed
\* once for each pair
response_complete ==
    [text \in Texts |->
        [q \in Questions \cup
                  {add_canvas_prevention_prompt(o, p) :
                      o \in Questions, p \in SystemPrompts} |->
            is_response_complete(text, q)]]

\* the monitoring loop body consulting the classifier on every identical
\* poll instead of the poll that brings stable_count to 6
MonitorStepEagerClassifier(ll, lt, sc, cur, q) ==
    LET current_length == IF cur.none THEN 0 ELSE Len(cur.value)
        keep == [last_length |-> ll, last_text |-> lt, stable_count |-> sc,
                 returned |-> FALSE]
    IN IF current_length > ll
       THEN [keep EXCEPT !.stable_count = 0,
                         !.last_length = current_length,
                         !.last_text = cur.value]
       ELSE IF current_length = ll /\ current_length > 0
       THEN (IF cur.value = lt
             THEN (IF is_response_complete(cur.value, q)
                   THEN [keep EXCEPT !.stable_count = sc + 1,
                                     !.returned = TRUE]
                   ELSE IF sc + 1 >= StableChecks
                   THEN [keep EXCEPT !.stable_count = 0]
                   ELSE [keep EXCEPT !.stable_count = sc + 1])
             ELSE [keep EXCEPT !.stable_count = 0, !.last_text = cur.value])
       ELSE keep

\* the monitoring loop body with the growth branch keeping stable_count
MonitorStepNoReset(ll, lt, sc, cur, q) ==
    LET current_length == IF cur.none THEN 0 ELSE Len(cur.value)
        keep == [last_length |-> ll, last_text |-> lt, stable_count |-> sc,
                 returned |-> FALSE]
    IN IF current_length > ll
       THEN [keep EXCEPT !.last_length = current_length,
                         !.last_text = cur.value]
       ELSE IF current_length = ll /\ current_length > 0
       THEN (IF cur.value = lt
             THEN (IF sc + 1 >= StableChecks
                   THEN (IF is_response_complete(cur.value, q)
                         THEN [keep EXCEPT !.stable_count = sc + 1,
                                           !.returned = TRUE]
                         ELSE [keep EXCEPT !.stable_count = 0])
                   ELSE [keep EXCEPT !.stable_count = sc + 1])
             ELSE [keep EXCEPT !.stable_count = 0, !.last_text = cur.value])
       ELSE keep

\* the monitoring loop body with a branch for a text that got shorter,
\* which it takes over as it does a longer one
MonitorStepAdoptsShorter(ll, lt, sc, cur, q) ==
    LET current_length == IF cur.none THEN 0 ELSE Len(cur.value)
        keep == [last_length |-> ll, last_text |-> lt, stable_count |-> sc,
                 returned |-> FALSE]
    IN IF current_length > ll \/ (current_length < ll /\ ~cur.none)
       THEN [keep EXCEPT !.stable_count = 0,
                         !.last_length = current_length,
                         !.last_text = cur.value]
       ELSE IF current_length = ll /\ current_length > 0
       THEN (IF cur.value = lt
             THEN (IF sc + 1 >= StableChecks
                   THEN (IF is_response_complete(cur.value, q)
                         THEN [keep EXCEPT !.stable_count = sc + 1,
                                           !.returned = TRUE]
                         ELSE [keep EXCEPT !.stable_count = 0])
                   ELSE [keep EXCEPT !.stable_count = sc + 1])
             ELSE [keep EXCEPT !.stable_count = 0, !.last_text = cur.value])
       ELSE keep

\* one iteration of the loop of _monitor_response_completion on the
\* observation cur: the new (last_length, last_text, stable_count) and
\* whether the loop returned current_text
MonitorStep(ll, lt, sc, cur, q) ==
    LET current_length == IF cur.none THEN 0 ELSE Len(cur.value)
        keep == [last_length |-> ll, last_text |-> lt, stable_count |-> sc,
                 returned |-> FALSE]
    IN IF current_length > ll
       THEN [keep EXCEPT !.stable_count = 0,
                         !.last_length = current_length,
                         !.last_text = cur.value]
       ELSE IF current_length = ll /\ current_length > 0
       THEN (IF cur.value = lt
             THEN (IF sc + 1 >= StableChecks
                   THEN (IF response_complete[cur.value][q]
                         THEN [keep EXCEPT !.stable_count = sc + 1,
                                           !.returned = TRUE]
                         ELSE [keep EXCEPT !.stable_count = 0])
                   ELSE [keep EXCEPT !.stable_count = sc + 1])
             ELSE [keep EXCEPT !.stable_count = 0, !.last_text = cur.value])
       ELSE keep

inputVars == <<selector, waitPc, polls, input_node_id, typed>>

locateVars == <<page_changed, question_node_id, response_node_id>>

monitorVars == <<last_length, last_text, stable_count, pollCount, verdict,
                 final_response, max_observed, same_polls>>

InitAsk ==
    /\ askPc = "idle"
    /\ askError = "none"
    /\ askResult = ""
    /\ question = ""
    /\ modified_question = ""
    /\ selector = 1
    /\ waitPc = "get_document"
    /\ polls = 0
    /\ input_node_id = 0
    /\ typed = 0
    /\ issued = {}
    /\ page_changed = FALSE
    /\ question_node_id = 0
    /\ response_node_id = 0
    /\ last_length = 0
    /\ last_text = ""
    /\ stable_count = 0
    /\ pollCount = 0
    /\ verdict = "none"
    /\ final_response = ""
    /\ dispatched = <<>>
    /\ faulted = FALSE
    /\ max_observed = 0
    /\ same_polls = 0

\* ask_question leaves by raising kind
Raise(kind) ==
    /\ askPc' = "failed"
    /\ askError' = kind

Issue(cmds) == issued' = issued \cup cmds

\* ask_question up to the start of the input search
AskQuestion(q, system_prompt) ==
    /\ UNCHANGED <<pageVars, clientVars, fnVars, dispatched, faulted>>
    /\ askPc = "idle"
    /\ question' = q
    /\ IF NotConnected(ws)
       THEN /\ Raise("ConnectionError")
            /\ modified_question' = ""
       ELSE /\ askPc' = "find_input"
            /\ askError' = "none"
            /\ modified_question' = add_canvas_prevention_prompt(q, system_prompt)
    /\ UNCHANGED <<askResult, inputVars, issued, locateVars, monitorVars>>

\* the caller has the result or the exception; the call's frame is gone
AskReturn ==
    /\ UNCHANGED <<detectVars, clientVars, fnVars>>
    /\ questionText' = ""
    /\ UNCHANGED <<dom, locPc, start_node_id, question_length,
                   current_node_id, level, common_parent_id, located,
                   verifications>>
    /\ askPc \in {"done", "failed"}
    /\ askPc' = "idle"
    /\ askError' = "none"
    /\ askResult' = ""
    /\ question' = ""
    /\ modified_question' = ""
    /\ selector' = 1
    /\ waitPc' = "get_document"
    /\ polls' = 0
    /\ input_node_id' = 0
    /\ typed' = 0
    /\ issued' = {}
    /\ page_changed' = FALSE
    /\ question_node_id' = 0
    /\ response_node_id' = 0
    /\ last_length' = 0
    /\ last_text' = ""
    /\ stable_count' = 0
    /\ pollCount' = 0
    /\ verdict' = "none"
    /\ final_response' = ""
    /\ dispatched' = <<>>
    /\ faulted' = FALSE
    /\ max_observed' = 0
    /\ same_polls' = 0

\* the loop over input_selectors without the test "if not input_node_id"
\* after it: the call goes on to step 2 with no node
NextSelectorNoRaise ==
    /\ waitPc' = "get_document"
    /\ polls' = 0
    /\ UNCHANGED askError
    /\ IF selector < NumSelectors
       THEN /\ selector' = selector + 1
            /\ UNCHANGED askPc
       ELSE /\ askPc' = "focus"
            /\ selector' = 1

\* the loop over input_selectors moves on after a wait returned None
NextSelector ==
    /\ waitPc' = "get_document"
    /\ polls' = 0
    /\ IF selector < NumSelectors
       THEN /\ selector' = selector + 1
            /\ UNCHANGED <<askPc, askError>>
       ELSE /\ Raise("InteractionError")
            /\ selector' = 1

\* wait_for_element: DOM.getDocument
WaitGetDocument(rootOk) ==
    /\ UNCHANGED <<pageVars, clientVars, fnVars, dispatched, faulted>>
    /\ askPc = "find_input"
    /\ waitPc = "get_document"
    /\ Issue({Cmd("DOM.getDocument", "input")})
    /\ IF rootOk
       THEN /\ waitPc' = "poll"
            /\ polls' = 0
            /\ UNCHANGED <<askPc, askError, selector>>
       ELSE NextSelector
    /\ UNCHANGED <<askResult, question, modified_question, input_node_id,
                   typed, locateVars, monitorVars>>

\* wait_for_element: one DOM.querySelector poll; node = 0 is "no nodeId"
WaitPoll(node) ==
    /\ UNCHANGED <<pageVars, clientVars, fnVars, dispatched, faulted>>
    /\ askPc = "find_input"
    /\ waitPc = "poll"
    /\ polls < InputTimeout * PollsPerSecond
    /\ Issue({Cmd("DOM.querySelector", "input")})
    /\ IF node # 0
       THEN /\ input_node_id' = node
            /\ askPc' = "focus"
            \* the loop variables go out of scope
            /\ selector' = 1
            /\ waitPc' = "get_document"
            /\ polls' = 0
            /\ UNCHANGED askError
       ELSE /\ UNCHANGED input_node_id
            /\ IF polls + 1 < InputTimeout * PollsPerSecond
               THEN /\ polls' = polls + 1
                    /\ UNCHANGED <<askPc, askError, selector, waitPc>>
               ELSE NextSelector
    /\ UNCHANGED <<askResult, question, modified_question, typed, locateVars,
                   monitorVars>>

\* the DOM.focus command of step 2
FocusEvent == [method |-> "DOM.focus", type |-> "", text |-> ""]

\* the 'char' key event of step 3 carrying the characters in reverse order
CharEventReversed(s, i) ==
    [method |-> "Input.dispatchKeyEvent", type |-> "char",
     text |-> CharAt(s, Len(s) + 1 - i)]

\* the 'char' key event of step 3 for the i-th character of s
CharEvent(s, i) ==
    [method |-> "Input.dispatchKeyEvent", type |-> "char",
     text |-> CharAt(s, i)]

\* the Enter key events of step 4; type is "keyDown" or "keyUp"
EnterEvent(type) ==
    [method |-> "Input.dispatchKeyEvent", type |-> type, text |-> "Enter"]

\* Step 2: DOM.focus
Focus ==
    /\ UNCHANGED <<pageVars, clientVars, fnVars, faulted>>
    /\ askPc = "focus"
    /\ Issue({Cmd("DOM.focus", "focus")})
    /\ dispatched' = Append(dispatched, FocusEvent)
    /\ askPc' = "type"
    /\ typed' = 0
    /\ UNCHANGED <<askError, askResult, question, modified_question, selector,
                   waitPc, polls, input_node_id, locateVars, monitorVars>>

\* Step 3: one 'char' key event
TypeChar ==
    /\ UNCHANGED <<pageVars, clientVars, fnVars, faulted>>
    /\ askPc = "type"
    /\ typed < Len(modified_question)
    /\ Issue({Cmd("Input.dispatchKeyEvent char", "type")})
    /\ dispatched' = Append(dispatched, CharEvent(modified_question, typed + 1))
    /\ typed' = typed + 1
    /\ UNCHANGED <<askPc, askError, askResult, question, modified_question,
                   selector, waitPc, polls, input_node_id, locateVars,
                   monitorVars>>

\* Step 4: Enter keyDown
EnterDown ==
    /\ UNCHANGED <<pageVars, clientVars, fnVars, faulted>>
    /\ askPc = "type"
    /\ typed = Len(modified_question)
    /\ Issue({Cmd("Input.dispatchKeyEvent keyDown", "submit")})
    /\ dispatched' = Append(dispatched, EnterEvent("keyDown"))
    /\ askPc' = "enter_up"
    /\ UNCHANGED <<askError, askResult, question, modified_question,
                   inputVars, locateVars, monitorVars>>

\* Step 4: Enter keyUp
EnterUp ==
    /\ UNCHANGED <<pageVars, clientVars, fnVars, faulted>>
    /\ askPc = "enter_up"
    /\ Issue({Cmd("Input.dispatchKeyEvent keyUp", "submit")})
    /\ dispatched' = Append(dispatched, EnterEvent("keyUp"))
    /\ askPc' = "phase1"
    /\ UNCHANGED <<askError, askResult, question, modified_question,
                   inputVars, locateVars, monitorVars>>

\* ask_question after wait_for_response_smart returned None, with
\* ValidationError for a failed validation
NoResponseValidationError(phase) ==
    IF phase = "sanitize" THEN "ValidationError" ELSE "TimeoutError"

\* ask_question after wait_for_response_smart returned None in the given
\* phase: "if not response: raise TimeoutError(...)", whatever the phase
NoResponse(phase) == "TimeoutError"

\* Phase 1: _detect_page_change, one awaited Runtime.evaluate
DetectPageChange(changed) ==
    /\ UNCHANGED <<pageVars, clientVars, fnVars, dispatched, faulted>>
    /\ askPc = "phase1"
    /\ Issue({Cmd("Runtime.evaluate", "phase1")})
    /\ page_changed' = changed
    /\ askPc' = AfterPhase1(changed)
    /\ askError' = IF AfterPhase1(changed) = "failed" THEN NoResponse("phase1")
                   ELSE askError
    /\ UNCHANGED <<askResult, question, modified_question, inputVars,
                   question_node_id, response_node_id, monitorVars>>

\* Phase 2: _find_question_element(question); the evaluation yields an
\* object or not, and DOM.requestNode a node id or not (node = 0)
FindQuestionElement(hasObject, node) ==
    /\ UNCHANGED <<detectVars, clientVars, fnVars, dispatched, faulted>>
    /\ askPc = "phase2"
    /\ questionText' = SearchQuestion
    /\ UNCHANGED <<dom, locPc, start_node_id, question_length,
                   current_node_id, level, common_parent_id, located,
                   verifications>>
    /\ Issue({Cmd("Runtime.evaluate", "phase2")}
             \cup (IF hasObject THEN {Cmd("DOM.requestNode", "phase2")}
                   ELSE {}))
    /\ IF hasObject /\ node # 0
       THEN /\ question_node_id' = node
            /\ askPc' = "phase3"
            /\ UNCHANGED askError
       ELSE /\ Raise(NoResponse("phase2"))
            /\ UNCHANGED question_node_id
    /\ UNCHANGED <<askResult, question, modified_question, inputVars,
                   page_changed, response_node_id, monitorVars>>

\* Phase 3: _find_response_element, by its result (node = 0 is None)
FindResponseElement(node) ==
    /\ UNCHANGED <<pageVars, clientVars, fnVars, dispatched, faulted>>
    /\ askPc = "phase3"
    /\ Issue({Cmd("DOM.resolveNode", "phase3")})
    /\ IF node # 0
       THEN /\ response_node_id' = node
            /\ askPc' = "debug"
            /\ UNCHANGED askError
       ELSE /\ Raise(NoResponse("phase3"))
            /\ UNCHANGED response_node_id
    /\ UNCHANGED <<askResult, question, modified_question, inputVars,
                   page_changed, question_node_id, monitorVars>>

\* the debug reads of both node texts, sliced with [:100], then the test
\* response_node_id == question_node_id
DebugTexts(questionTextNone, responseTextNone) ==
    /\ UNCHANGED <<pageVars, clientVars, fnVars, dispatched, faulted>>
    /\ askPc = "debug"
    /\ Issue({Cmd("DOM.resolveNode", "debug")})
    /\ IF questionTextNone \/ responseTextNone
       THEN Raise("TypeError")
       ELSE IF response_node_id = question_node_id
       THEN Raise(NoResponse("debug"))
       ELSE /\ askPc' = "monitor"
            /\ UNCHANGED askError
    /\ UNCHANGED <<askResult, question, modified_question, inputVars,
                   locateVars, monitorVars>>

\* Phase 4: one iteration of the monitoring loop, before the deadline
MonitorIteration(cur) ==
    /\ askPc = "monitor"
    /\ pollCount < MaxPolls
    /\ pollCount' = pollCount + 1
    /\ LET new == MonitorStep(last_length, last_text, stable_count, cur,
                              SearchQuestion)
       IN /\ last_length' = new.last_length
          /\ last_text' = new.last_text
          /\ stable_count' = new.stable_count
          /\ IF new.returned
             THEN /\ final_response' = cur.value
                  /\ verdict' = "complete"
                  /\ askPc' = "sanitize"
             ELSE UNCHANGED <<final_response, verdict, askPc>>
    /\ Issue({Cmd("DOM.resolveNode", "monitor")})
    /\ UNCHANGED <<askError, askResult, question, modified_question,
                   inputVars, locateVars>>
    /\ UNCHANGED <<pageVars, clientVars, fnVars, dispatched, faulted>>

\* the monitoring loop with a clock that stands still: the deadline is
\* never seen to pass
MonitorPollNoDeadline(cur) ==
    /\ askPc = "monitor"
    /\ UNCHANGED pollCount
    /\ LET new == MonitorStep(last_length, last_text, stable_count, cur,
                              SearchQuestion)
       IN /\ last_length' = new.last_length
          /\ last_text' = new.last_text
          /\ stable_count' = new.stable_count
          /\ IF new.returned
             THEN /\ final_response' = cur.value
                  /\ verdict' = "complete"
                  /\ askPc' = "sanitize"
             ELSE UNCHANGED <<final_response, verdict, askPc>>
    /\ Issue({Cmd("DOM.resolveNode", "monitor")})
    /\ UNCHANGED <<askError, askResult, question, modified_question,
                   inputVars, locateVars, max_observed, same_polls>>
    /\ UNCHANGED <<pageVars, clientVars, fnVars, dispatched, faulted>>

\* the iteration inside ask_question, where no history of the polls is kept
MonitorPoll(cur) ==
    /\ MonitorIteration(cur)
    /\ UNCHANGED <<max_observed, same_polls>>

\* the iteration of a monitor run on its own, with the history of its
\* polls: the longest text observed, and how many of the latest polls in a
\* row observed exactly the text the monitor now holds
RecordedPoll(cur) ==
    /\ MonitorIteration(cur)
    /\ max_observed' = IF ~cur.none /\ Len(cur.value) > max_observed
                       THEN Len(cur.value)
                       ELSE max_observed
    /\ same_polls' = IF cur.none \/ cur.value # last_text' THEN 0
                     ELSE IF cur.value # last_text THEN 1
                     ELSE IF same_polls < StableChecks THEN same_polls + 1
                     ELSE same_polls

\* Phase 4: the loop condition finds the deadline passed
MonitorTimeout ==
    /\ UNCHANGED <<pageVars, clientVars, fnVars, dispatched, faulted>>
    /\ askPc = "monitor"
    /\ IF IsSubstantial(last_text)
       THEN /\ final_response' = last_text
            /\ verdict' = "partial"
            /\ askPc' = "sanitize"
            /\ UNCHANGED askError
       ELSE /\ Raise(NoResponse("monitor"))
            /\ UNCHANGED <<final_response, verdict>>
    /\ UNCHANGED <<askResult, question, modified_question, inputVars,
                   locateVars, issued, last_length, last_text, stable_count,
                   pollCount, max_observed, same_polls>>

\* _clean_response_text on the texts and questions of the model, computed
\* once for each pair
cleaned_responses ==
    [raw_text \in Texts |->
        [q \in Questions \cup
                  {add_canvas_prevention_prompt(o, p) :
                      o \in Questions, p \in SystemPrompts} |->
            clean_response_text(raw_text, q)]]

\* Phase 5: clean and validate, then ask_question returns or raises
Sanitize ==
    /\ UNCHANGED <<pageVars, clientVars, fnVars, dispatched, faulted>>
    /\ askPc = "sanitize"
    /\ LET cleaned_response ==
               cleaned_responses[final_response][SearchQuestion]
       IN IF validate_response(cleaned_response, SearchQuestion)
          THEN /\ askResult' = cleaned_response
               /\ askPc' = "done"
               /\ UNCHANGED askError
          ELSE /\ Raise(NoResponse("sanitize"))
               /\ UNCHANGED askResult
    /\ UNCHANGED <<question, modified_question, inputVars, locateVars,
                   issued, monitorVars>>

\* a command of wait_for_element raises: "except Exception" returns None
\* and the loop over input_selectors goes on
WaitFault(fault) ==
    /\ UNCHANGED <<pageVars, clientVars, fnVars, dispatched>>
    /\ askPc = "find_input"
    /\ Issue({Cmd(IF waitPc = "get_document" THEN "DOM.getDocument"
                  ELSE "DOM.querySelector", "input")})
    /\ faulted' = TRUE
    /\ NextSelector
    /\ UNCHANGED <<askResult, question, modified_question, input_node_id,
                   typed, locateVars, monitorVars>>

\* a command of steps 2-4 raises: nothing handles it before the handler
\* of ask_question, which prints and re-raises the same exception
SubmitFault(fault) ==
    /\ UNCHANGED <<pageVars, clientVars, fnVars>>
    /\ askPc \in {"focus", "type", "enter_up"}
    /\ faulted' = TRUE
    /\ Raise(ExceptionOf(fault))
    /\ IF askPc = "focus"
       THEN /\ Issue({Cmd("DOM.focus", "focus")})
            /\ dispatched' = Append(dispatched, FocusEvent)
            /\ UNCHANGED typed
       ELSE IF askPc = "enter_up"
       THEN /\ Issue({Cmd("Input.dispatchKeyEvent keyUp", "submit")})
            /\ dispatched' = Append(dispatched, EnterEvent("keyUp"))
            /\ UNCHANGED typed
       ELSE IF typed < Len(modified_question)
       THEN /\ Issue({Cmd("Input.dispatchKeyEvent char", "type")})
            /\ dispatched' = Append(dispatched,
                                    CharEvent(modified_question, typed + 1))
            /\ typed' = typed + 1
       ELSE /\ Issue({Cmd("Input.dispatchKeyEvent keyDown", "submit")})
            /\ dispatched' = Append(dispatched, EnterEvent("keyDown"))
            /\ UNCHANGED typed
    /\ UNCHANGED <<askResult, question, modified_question, selector, waitPc,
                   polls, input_node_id, locateVars, monitorVars>>

\* a command of phases 1-3 or of the debug reads raises: the helper's
\* "except Exception" returns False / None; a None text then fails the
\* [:100] slice of the debug print
DetectionFault(fault) ==
    /\ UNCHANGED <<pageVars, clientVars, fnVars, dispatched>>
    /\ askPc \in {"phase1", "phase2", "phase3", "debug"}
    /\ faulted' = TRUE
    /\ Issue({Cmd(IF askPc \in {"phase1", "phase2"} THEN "Runtime.evaluate"
                  ELSE "DOM.resolveNode", askPc)})
    /\ IF askPc = "debug" THEN Raise("TypeError") ELSE Raise(NoResponse(askPc))
    /\ UNCHANGED <<askResult, question, modified_question, inputVars,
                   locateVars, monitorVars>>

\* a command of _get_element_text raises inside the monitoring loop:
\* the text is None and the loop goes on
MonitorFault(fault) ==
    /\ UNCHANGED <<pageVars, clientVars, fnVars, dispatched>>
    /\ askPc = "monitor"
    /\ pollCount < MaxPolls
    /\ faulted' = TRUE
    /\ Issue({Cmd("DOM.resolveNode", "monitor")})
    /\ pollCount' = pollCount + 1
    /\ LET new == MonitorStep(last_length, last_text, stable_count, NoText,
                              SearchQuestion)
       IN /\ last_length' = new.last_length
          /\ last_text' = new.last_text
          /\ stable_count' = new.stable_count
    /\ UNCHANGED <<askPc, askError, askResult, question, modified_question,
                   inputVars, locateVars, final_response, verdict,
                   max_observed, same_polls>>

\* a command of the call gets no matching reply: the read loop of
\* _send_command ("while True") has no other exit, and the call stays in it
ReplyMissing ==
    /\ askPc \notin {"idle", "sanitize", "done", "failed", "blocked"}
    /\ askPc' = "blocked"
    /\ UNCHANGED <<askError, askResult, question, modified_question,
                   inputVars, locateVars, monitorVars, issued, dispatched,
                   faulted>>
    /\ UNCHANGED <<pageVars, clientVars, fnVars>>

----------------------------------------------------------------------------
(* Applying the sanitizer to given texts *)

\* the last one is a text of MaxResponseLen + 1 characters
Answers ==
    LET RECURSIVE Filler(_)
        Filler(n) == IF n = 0 THEN ""
                     ELSE IF n % 2 = 1 THEN "x" \o Filler(n - 1)
                     ELSE LET half == Filler(n \div 2) IN half \o half
    IN { "", "4", "  4 ", "The answer is 4.", "x\t y", "Copy the file",
         "What is 2+2?", "what is 2+2?", "loading", "...", "Paris",
         "2 + 2 equals 4", "Show thinking", "42 What is 2+2?", "Paris.",
         "name a city", "Name a city ok", "Please wait", "Yes",
         "Lyon is a city in France on the Rhone and the Saone rivers",
         Filler(MaxResponseLen + 1) }

\* the raw text of the sanitizer round trip
RoundTripRaw(q, answer) == q \o " " \o answer \o " Copy code Show thinking"

InitFn ==
    /\ fnPc = "input"
    /\ fnQuestion = ""
    /\ fnText = ""
    /\ fnCleaned = ""
    /\ fnValid = FALSE
    /\ fnComplete = FALSE

\* _clean_response_text on the round-trip text built from the inputs
CleanRoundTrip ==
    /\ UNCHANGED <<pageVars, clientVars, askVars>>
    /\ fnPc = "input"
    /\ fnCleaned' = clean_response_text(RoundTripRaw(fnQuestion, fnText),
                                        fnQuestion)
    /\ fnPc' = "cleaned"
    /\ UNCHANGED <<fnQuestion, fnText, fnValid, fnComplete>>

\* _validate_response on the inputs
Validate ==
    /\ UNCHANGED <<pageVars, clientVars, askVars>>
    /\ fnPc = "input"
    /\ fnValid' = validate_response(fnText, fnQuestion)
    /\ fnPc' = "validated"
    /\ UNCHANGED <<fnQuestion, fnText, fnCleaned, fnComplete>>

\* _is_response_complete on the inputs
Classify ==
    /\ UNCHANGED <<pageVars, clientVars, askVars>>
    /\ fnPc = "input"
    /\ fnComplete' = is_response_complete(fnText, fnQuestion)
    /\ fnPc' = "classified"
    /\ UNCHANGED <<fnQuestion, fnText, fnCleaned, fnValid>>

----------------------------------------------------------------------------
(* Phase 1: the page-change detector that _detect_page_change evaluates in  *)
(* the page and awaits.  Its timers run on a clock of seconds; two timers   *)
(* due in the same second may fire in either order.                         *)

DetectTimeout == 30      \* _detect_page_change(30): setTimeout(..., timeout * 1000)
GrowthDelay == 3         \* setTimeout(..., 3000) after text growth
ConversationDelay == 2   \* setTimeout(..., 2000) after a user-query element
GrowthThreshold == 10    \* textGrowth > 10

\* page contents <<body text length, user-query text length>>: empty, a
\* page without and with an earlier turn, and the latter grown by 10 and
\* by 11 characters
Pages == {<<0, 0>>, <<40, 0>>, <<40, 12>>, <<50, 0>>, <<50, 12>>,
          <<51, 0>>, <<51, 12>>}

InitDetect ==
    /\ detPc = "idle"
    /\ detectResult = FALSE
    /\ clock = 0
    /\ \E pg \in Pages : bodyTextLength = pg[1] /\ userQueryLength = pg[2]
    /\ mutated = FALSE
    /\ initialTextLength = 0
    /\ changeDetected = FALSE
    /\ detectedAt = -1
    /\ timeoutArmed = FALSE
    /\ stabilizeDue = -1
    /\ promise = "pending"

\* checkForChanges() at time now on a page with the given lengths, called
\* while changeDetected is false
checkForChanges(body, userQuery, now) ==
    IF body - initialTextLength' > GrowthThreshold
    THEN /\ changeDetected' = TRUE
         /\ detectedAt' = now
         /\ stabilizeDue' = now + GrowthDelay
    ELSE IF userQuery > 0
    THEN /\ changeDetected' = TRUE
         /\ detectedAt' = now
         /\ stabilizeDue' = now + ConversationDelay
    ELSE UNCHANGED <<changeDetected, detectedAt, stabilizeDue>>

\* _detect_page_change sends Runtime.evaluate; the script arms the overall
\* timer, records initialTextLength and checks immediately
DetectStart ==
    /\ UNCHANGED <<clientVars, askVars, fnVars, domVars>>
    /\ detPc = "idle"
    /\ detPc' = "running"
    /\ timeoutArmed' = TRUE
    /\ initialTextLength' = bodyTextLength
    /\ checkForChanges(bodyTextLength, userQueryLength, clock)
    /\ UNCHANGED <<detectResult, clock, bodyTextLength, userQueryLength,
                   mutated, promise>>

\* the page changes; the MutationObserver may be notified (it is not for a
\* change of text inside a node) and then checks unless changeDetected
PageMutates(body, userQuery, notified) ==
    /\ UNCHANGED <<clientVars, askVars, fnVars, domVars>>
    /\ detPc = "running"
    /\ <<body, userQuery>> # <<bodyTextLength, userQueryLength>>
    /\ bodyTextLength' = body
    /\ userQueryLength' = userQuery
    /\ mutated' = TRUE
    /\ UNCHANGED initialTextLength
    /\ IF notified /\ ~changeDetected
       THEN checkForChanges(body, userQuery, clock)
       ELSE UNCHANGED <<changeDetected, detectedAt, stabilizeDue>>
    /\ UNCHANGED <<detPc, detectResult, clock, timeoutArmed, promise>>

\* a timer is due at the current clock
TimerDue ==
    \/ timeoutArmed /\ clock >= DetectTimeout
    \/ stabilizeDue # -1 /\ clock >= stabilizeDue

\* one second passes and the setInterval callback runs: it checks unless
\* changeDetected
IntervalCheck ==
    /\ UNCHANGED <<clientVars, askVars, fnVars, domVars>>
    /\ detPc \in {"running", "returned"}
    /\ timeoutArmed \/ stabilizeDue # -1
    /\ ~TimerDue
    /\ clock' = clock + 1
    /\ UNCHANGED initialTextLength
    /\ IF ~changeDetected
       THEN checkForChanges(bodyTextLength, userQueryLength, clock + 1)
       ELSE UNCHANGED <<changeDetected, detectedAt, stabilizeDue>>
    /\ UNCHANGED <<detPc, detectResult, bodyTextLength, userQueryLength,
                   mutated, timeoutArmed, promise>>

\* the overall timer fires: resolve(false), which settles a pending promise
TimeoutFires ==
    /\ UNCHANGED <<clientVars, askVars, fnVars, domVars>>
    /\ timeoutArmed
    /\ clock >= DetectTimeout
    /\ timeoutArmed' = FALSE
    /\ promise' = IF promise = "pending" THEN "false" ELSE promise
    /\ UNCHANGED <<detPc, detectResult, clock, bodyTextLength,
                   userQueryLength, mutated, initialTextLength,
                   changeDetected, detectedAt, stabilizeDue>>

\* the stabilization timer fires: clearTimeout(timeoutId), resolve(true)
StabilizeFires ==
    /\ UNCHANGED <<clientVars, askVars, fnVars, domVars>>
    /\ stabilizeDue # -1
    /\ clock >= stabilizeDue
    /\ stabilizeDue' = -1
    /\ timeoutArmed' = FALSE
    /\ promise' = IF promise = "pending" THEN "true" ELSE promise
    /\ UNCHANGED <<detPc, detectResult, clock, bodyTextLength,
                   userQueryLength, mutated, initialTextLength,
                   changeDetected, detectedAt>>

\* the awaited promise has settled: _detect_page_change returns its value
DetectReturn ==
    /\ UNCHANGED <<clientVars, askVars, fnVars, domVars>>
    /\ detPc = "running"
    /\ promise # "pending"
    /\ detPc' = "returned"
    /\ detectResult' = (promise = "true")
    /\ UNCHANGED <<clock, bodyTextLength, userQueryLength, mutated,
                   initialTextLength, changeDetected, detectedAt,
                   timeoutArmed, stabilizeDue, promise>>

----------------------------------------------------------------------------
(* Phases 2 and 3: the DOM searches of _find_question_element and           *)
(* _find_response_element.  The page is a sequence of elements in document  *)
(* order, each with its depth, tag, class attribute and own text; node ids  *)
(* are positions in that sequence, 0 stands for None.                       *)

MaxLevels == 10      \* max_levels = 10
TooBig == 10         \* candidate.textLength < questionText.length * 10
MaxRatio == 3        \* total_length < question_length * 3

Element(depth, tag, class, text) ==
    [depth |-> depth, tag |-> tag, class |-> class, text |-> text]

\* the descendants of element n: the elements after it that lie deeper
Descendants(d, n) ==
    {j \in (n + 1)..Len(d) : \A k \in (n + 1)..j : d[k].depth > d[n].depth}

\* this.parentElement, 0 for null
parentElement(d, n) ==
    LET above == {j \in 1..(n - 1) : d[j].depth = d[n].depth - 1}
    IN IF above = {} THEN 0
       ELSE CHOOSE j \in above : \A k \in above : k <= j

RECURSIVE TextOf(_, _, _)
TextOf(d, i, last) ==
    IF i > last THEN "" ELSE d[i].text \o TextOf(d, i + 1, last)

\* element.textContent: the element's text and that of its descendants
textContent(d, n) == TextOf(d, n, n + Cardinality(Descendants(d, n)))

\* the first element of a non-empty set in document order
First(S) == CHOOSE i \in S : \A j \in S : i <= j

\* candidates.sort((a, b) => a.textLength - b.textLength)[0]: the sort is
\* stable, so among the shortest the first in document order
ShortestLast(d, S) ==
    CHOOSE i \in S : \A j \in S :
        \/ Len(textContent(d, i)) < Len(textContent(d, j))
        \/ Len(textContent(d, i)) = Len(textContent(d, j)) /\ j <= i

Shortest(d, S) ==
    CHOOSE i \in S : \A j \in S :
        \/ Len(textContent(d, i)) < Len(textContent(d, j))
        \/ Len(textContent(d, i)) = Len(textContent(d, j)) /\ i <= j

\* find_question_js without its sort: the first candidate in document
\* order under the bound, or the first candidate when all are larger
find_question_element_unsorted(d, q) ==
    LET exact == {i \in 1..Len(d) : Strip(textContent(d, i)) = Strip(q)}
        candidates == {i \in 1..Len(d) : Contains(textContent(d, i), q)}
        reasonable == {i \in candidates :
                          Len(textContent(d, i)) < Len(q) * TooBig}
    IN IF exact # {} THEN First(exact)
       ELSE IF candidates = {} THEN 0
       ELSE IF reasonable # {} THEN First(reasonable)
       ELSE First(candidates)

\* find_question_js: the element the script returns, 0 for null
find_question_element(d, q) ==
    LET exact == {i \in 1..Len(d) : Strip(textContent(d, i)) = Strip(q)}
        candidates == {i \in 1..Len(d) : Contains(textContent(d, i), q)}
        reasonable == {i \in candidates :
                          Len(textContent(d, i)) < Len(q) * TooBig}
    IN IF exact # {} THEN First(exact)
       ELSE IF candidates = {} THEN 0
       ELSE IF reasonable # {} THEN Shortest(d, reasonable)
       ELSE Shortest(d, candidates)

\* a selector is a tag name, or [class*="..."] naming a part of the class
Matches(el, sel) ==
    IF sel.kind = "tag" THEN el.tag = sel.name
    ELSE Contains(el.class, sel.name)

\* the selector list of verify_js
VerifySelectors ==
    {[kind |-> "tag", name |-> "model-response"],
     [kind |-> "class", name |-> "model-response"],
     [kind |-> "class", name |-> "response"],
     [kind |-> "tag", name |-> "message-content"]}

\* _verify_common_parent; probe: the node resolved and the script returned
verify_common_parent_inclusive(d, n, qlen, probe) ==
    /\ probe
    /\ LET responseElements ==
               {j \in Descendants(d, n) :
                   \E sel \in VerifySelectors : Matches(d[j], sel)}
           total_length == Len(textContent(d, n))
       IN \/ responseElements # {}
          \/ total_length >= qlen /\ total_length <= qlen * MaxRatio

verify_common_parent(d, n, qlen, probe) ==
    /\ probe
    /\ LET responseElements ==
               {j \in Descendants(d, n) :
                   \E sel \in VerifySelectors : Matches(d[j], sel)}
           total_length == Len(textContent(d, n))
       IN \/ responseElements # {}
          \/ total_length > qlen /\ total_length < qlen * MaxRatio

\* the selector list of find_response_js, in its order
ResponseSelectors ==
    <<[kind |-> "tag", name |-> "model-response"],
      [kind |-> "tag", name |-> "message-content"],
      [kind |-> "tag", name |-> "response-container"],
      [kind |-> "class", name |-> "model-response"],
      [kind |-> "class", name |-> "response-text"],
      [kind |-> "class", name |-> "message-content"]>>

\* find_response_js: the element the script returns, 0 for null
find_response_within_parent(d, n) ==
    LET accepted(k) ==
            {j \in Descendants(d, n) :
                /\ Matches(d[j], ResponseSelectors[k])
                /\ LET text == Strip(textContent(d, j))
                   IN Len(text) > 0 /\ ~Contains(text, "What is 2+2?")}
        hits == {k \in 1..Len(ResponseSelectors) : accepted(k) # {}}
    IN IF hits = {} THEN 0 ELSE First(accepted(First(hits)))

\* the keywords of _walk_up_dom_tree, looked up in the lowered class names
IsConversationContainer(classes) ==
    \E keyword \in {"chat-history", "conversation", "chat-container"} :
        Contains(Lower(classes), keyword)

\* the pages the locator is run on: a body holding a conversation element,
\* inside it pad wrappers, each with a blank of its own, around the element
\* that shows the question, with or without an empty marker element
\* inside, followed by the response elements of the conversation
Document(class, pad, asked, marker, responses) ==
    <<Element(0, "body", "", ""), Element(1, "div", class, "")>>
    \o [i \in 1..pad |-> Element(1 + i, "div", "", " ")]
    \o <<[asked EXCEPT !.depth = 2 + pad]>>
    \o [i \in 1..Len(marker) |-> [marker[i] EXCEPT !.depth = 3 + pad]]
    \o responses

Documents ==
    LET Pads == {0, 8, 9}
        ContainerClasses == {"", "conversation-container"}
        QuestionElements ==
            {Element(0, "user-query", "", "Hi "),
             Element(0, "user-query", "", "Hi, reply in plain text and do not open Canvas."),
             Element(0, "div", "conversation-turn", "Hi?")}
        Markers == {<<>>, <<Element(0, "span", "response-marker", "")>>}
        ResponseElements ==
            {Element(2, "model-response", "", "4"),
             Element(2, "model-response", "", "Hi"),
             Element(2, "message-content", "", " "),
             Element(2, "div", "response-text", "What is 2+2? 4"),
             Element(2, "div", "model-response-text", "Hello!")}
        Responses ==
            {<<>>} \cup {<<r>> : r \in ResponseElements}
                   \cup {pair \in ResponseElements \X ResponseElements :
                             pair[1] # pair[2]}
    IN {Document(class, pad, asked, marker, responses) :
           class \in ContainerClasses, pad \in Pads,
           asked \in QuestionElements, marker \in Markers,
           responses \in Responses}

InitLocate ==
    /\ dom \in Documents
    /\ questionText \in {"Hi", " Hi"}
    /\ locPc = "phase2"
    /\ start_node_id = 0
    /\ question_length = 0
    /\ current_node_id = 0
    /\ level = 0
    /\ common_parent_id = 0
    /\ located = 0
    /\ verifications = {}

\* _find_question_element: Runtime.evaluate yields the element or fails,
\* DOM.requestNode yields its node id or fails
FindQuestion(evaluated, requested) ==
    /\ UNCHANGED <<clientVars, askVars, fnVars, detectVars>>
    /\ locPc = "phase2"
    /\ start_node_id' = IF evaluated /\ requested
                        THEN find_question_element(dom, questionText)
                        ELSE 0
    /\ locPc' = IF start_node_id' = 0 THEN "failed" ELSE "phase3"
    /\ UNCHANGED <<dom, questionText, question_length, current_node_id,
                   level, common_parent_id, located, verifications>>

\* _find_response_element up to the call of _walk_up_dom_tree;
\* _get_element_text returns None when a command fails
MeasureQuestion(textRead) ==
    /\ UNCHANGED <<clientVars, askVars, fnVars, detectVars>>
    /\ locPc = "phase3"
    /\ question_length' = IF textRead
                          THEN Len(textContent(dom, start_node_id))
                          ELSE 0
    /\ IF question_length' = 0
       THEN /\ locPc' = "failed"
            /\ UNCHANGED <<current_node_id, level>>
       ELSE /\ locPc' = "walk"
            /\ current_node_id' = start_node_id
            /\ level' = 0
    /\ UNCHANGED <<dom, questionText, start_node_id, common_parent_id,
                   located, verifications>>

\* one iteration of the loop of _walk_up_dom_tree, with the loop test;
\* any of its commands may fail: the text read, the element description,
\* either verification probe and the parent lookup
WalkLevelUnverified(textRead, described, probe1, probe2, parentFound) ==
    /\ UNCHANGED <<clientVars, askVars, fnVars, detectVars>>
    /\ locPc = "walk"
    /\ IF current_node_id = 0 \/ level >= MaxLevels
       THEN /\ locPc' = "failed"
            /\ UNCHANGED <<current_node_id, level, common_parent_id,
                           verifications>>
       ELSE LET text_length == IF textRead
                               THEN Len(textContent(dom, current_node_id))
                               ELSE 0
                classes == IF described THEN dom[current_node_id].class
                           ELSE ""
                byClass == IsConversationContainer(classes)
                byLength == 10 * text_length > 12 * question_length
                parent_node_id == IF parentFound
                                  THEN parentElement(dom, current_node_id)
                                  ELSE 0
            IN /\ verifications' = {}
               /\ IF byClass \/ byLength
                  THEN /\ common_parent_id' = current_node_id
                       /\ locPc' = "within"
                       /\ UNCHANGED <<current_node_id, level>>
                  ELSE IF parent_node_id = 0
                  THEN /\ locPc' = "failed"
                       /\ UNCHANGED <<current_node_id, level,
                                      common_parent_id>>
                  ELSE /\ current_node_id' = parent_node_id
                       /\ level' = level + 1
                       /\ UNCHANGED <<locPc, common_parent_id>>
    /\ UNCHANGED <<dom, questionText, start_node_id, question_length, located>>

WalkLevel(textRead, described, probe1, probe2, parentFound) ==
    /\ UNCHANGED <<clientVars, askVars, fnVars, detectVars>>
    /\ locPc = "walk"
    /\ IF current_node_id = 0 \/ level >= MaxLevels
       THEN /\ locPc' = "failed"
            /\ UNCHANGED <<current_node_id, level, common_parent_id,
                           verifications>>
       ELSE LET text_length == IF textRead
                               THEN Len(textContent(dom, current_node_id))
                               ELSE 0
                classes == IF described THEN dom[current_node_id].class
                           ELSE ""
                byClass == IsConversationContainer(classes)
                byLength == 10 * text_length > 12 * question_length
                Verification(probe) ==
                    [node |-> current_node_id,
                     question_length |-> question_length, probe |-> probe,
                     result |-> verify_common_parent(dom, current_node_id,
                                                     question_length, probe)]
                first == Verification(probe1)
                second == Verification(probe2)
                parent_node_id == IF parentFound
                                  THEN parentElement(dom, current_node_id)
                                  ELSE 0
            IN /\ verifications' =
                      (IF byClass THEN {first} ELSE {})
                      \cup (IF byLength /\ ~(byClass /\ first.result)
                            THEN {second} ELSE {})
               /\ IF \/ byClass /\ first.result
                     \/ byLength /\ second.result
                  THEN /\ common_parent_id' = current_node_id
                       /\ locPc' = "within"
                       /\ UNCHANGED <<current_node_id, level>>
                  ELSE IF parent_node_id = 0
                  THEN /\ locPc' = "failed"
                       /\ UNCHANGED <<current_node_id, level,
                                      common_parent_id>>
                  ELSE /\ current_node_id' = parent_node_id
                       /\ level' = level + 1
                       /\ UNCHANGED <<locPc, common_parent_id>>
    /\ UNCHANGED <<dom, questionText, start_node_id, question_length, located>>

\* _find_response_within_parent: the parent resolves or not, the script
\* yields the element or fails, DOM.requestNode yields its node id or fails
FindWithinParent(resolved, called, requested) ==
    /\ UNCHANGED <<clientVars, askVars, fnVars, detectVars>>
    /\ locPc = "within"
    /\ located' = IF resolved /\ called /\ requested
                  THEN find_response_within_parent(dom, common_parent_id)
                  ELSE 0
    /\ locPc' = IF located' = 0 THEN "failed" ELSE "found"
    /\ UNCHANGED <<dom, questionText, start_node_id, question_length,
                   current_node_id, level, common_parent_id, verifications>>

----------------------------------------------------------------------------
(* Specifications *)

vars == <<clientVars, askVars, fnVars, pageVars>>

\* the client after a successful connect() that was not asked to minimize
ConnectedClient ==
    /\ ws = "open"
    /\ message_id = 3
    /\ minimized = FALSE
    /\ screenshot_path = FALSE
    /\ sent = <<Opened,
                [id |-> 1, auto |-> TRUE, method |-> "Runtime.enable",
                 by |-> "connect"],
                [id |-> 2, auto |-> TRUE, method |-> "DOM.enable",
                 by |-> "connect"]>>
    /\ inbox = <<>>
    /\ pcSend = [c \in Callers |-> IF c = "connect" THEN "returned" ELSE "idle"]
    /\ command_id = [c \in Callers |-> IF c = "connect" THEN 2 ELSE 0]
    /\ response = [c \in Callers |-> IF c = "connect" THEN Reply(2, TRUE)
                                     ELSE NoMsg]
    /\ lastRead = [c \in Callers |-> IF c = "connect" THEN Reply(2, TRUE)
                                     ELSE NoMsg]
    /\ sendError = [c \in Callers |-> "none"]
    /\ connectPc = "connected"
    /\ connectStep = 2
    /\ connectError = "none"
    /\ closePc = "idle"
    /\ answered = {2, 3}

\* the client never connected
UnconnectedClient ==
    InitClient /\ minimized = FALSE /\ screenshot_path = FALSE

\* ask_question called on a client that is not connected; the call on a
\* connected client is the subject of SpecAsk
AskUnconnected ==
    /\ connectPc # "enabling"
    /\ closePc = "idle"
    /\ NoCallInFlight
    /\ ws = "None"
    /\ AskQuestion("What is 2+2?", DefaultPrompt)

\* The protocol client: connect(), close() and sequential calls
\* the page detector before _detect_page_change, on an empty page
DetectAtRest == InitDetect /\ bodyTextLength = 0 /\ userQueryLength = 0

\* the locator before it is given a page and a question
LocateAtRest ==
    /\ dom = <<>>
    /\ questionText = ""
    /\ locPc = "phase2"
    /\ start_node_id = 0
    /\ question_length = 0
    /\ current_node_id = 0
    /\ level = 0
    /\ common_parent_id = 0
    /\ located = 0
    /\ verifications = {}

Init == InitClient /\ InitAsk /\ InitFn /\ DetectAtRest /\ LocateAtRest

Next ==
    \/ \E o \in DiscoveryOutcomes : ConnectBegin(o)
    \/ ConnectSend
    \/ ConnectRecv
    \/ \E f \in Faults : ConnectFault(f)
    \/ ConnectReturn
    \/ \E i \in PresetIds : UserSend(i)
    \/ GetPageText
    \/ UserRecv
    \/ \E f \in Faults : UserFault(f)
    \/ PeerDeliver
    \/ CloseBegin
    \/ CloseRecv
    \/ CloseFinish
    \/ \E f \in Faults : CloseFault(f)
    \/ AskUnconnected
    \/ AskReturn

Spec == Init /\ [][Next]_vars

\* Two threads share one connected client and call _send_command with no
\* lock between them
InitOverlap ==
    ConnectedClient /\ InitAsk /\ InitFn /\ DetectAtRest /\ LocateAtRest

NextOverlap ==
    \/ \E c \in {"user", "close"} : OverlappingSend(c)
    \/ \E c \in {"user", "close"} :
           /\ recv(c)
           /\ UNCHANGED <<ws, connectPc, connectStep, connectError, closePc>>
    \/ PeerAnswers

SpecOverlap == InitOverlap /\ [][NextOverlap]_vars

\* _monitor_response_completion on its own: called with a response node
\* and a question, it polls until it returns a text or its deadline passes
InitMonitor ==
    /\ ConnectedClient /\ InitFn /\ DetectAtRest /\ LocateAtRest
    /\ askPc = "monitor"
    /\ askError = "none"
    /\ askResult = ""
    /\ question \in Questions
    /\ modified_question = add_canvas_prevention_prompt(question,
                                                        DefaultPrompt)
    /\ selector = 1
    /\ waitPc = "get_document"
    /\ polls = 0
    /\ input_node_id = 1
    /\ typed = Len(modified_question)
    /\ issued = {}
    /\ page_changed = TRUE
    /\ question_node_id = 1
    /\ response_node_id = 2
    /\ last_length = 0
    /\ last_text = ""
    /\ stable_count = 0
    /\ pollCount = 0
    /\ verdict = "none"
    /\ final_response = ""
    /\ dispatched = <<>>
    /\ faulted = FALSE
    /\ max_observed = 0
    /\ same_polls = 0

NextMonitor ==
    \/ \E cur \in Observations : RecordedPoll(cur)
    \/ MonitorTimeout

SpecMonitor == InitMonitor /\ [][NextMonitor]_vars

\* ask_question calls on a client that is connected, or never was
InitAskSpec ==
    /\ ConnectedClient \/ UnconnectedClient
    /\ InitAsk /\ InitFn /\ DetectAtRest /\ LocateAtRest

NextAsk ==
    \/ \E q \in Questions, sp \in SystemPrompts : AskQuestion(q, sp)
    \/ \E ok \in BOOLEAN : WaitGetDocument(ok)
    \/ \E n \in {0, 1} : WaitPoll(n)
    \/ Focus
    \/ TypeChar
    \/ EnterDown
    \/ EnterUp
    \/ \E ch \in BOOLEAN : DetectPageChange(ch)
    \/ \E ho \in BOOLEAN, n \in {0} \cup Nodes : FindQuestionElement(ho, n)
    \/ \E n \in {0} \cup Nodes : FindResponseElement(n)
    \/ \E a, b \in BOOLEAN : DebugTexts(a, b)
    \/ \E cur \in Observations : MonitorPoll(cur)
    \/ MonitorTimeout
    \/ Sanitize
    \/ \E f \in Faults : WaitFault(f)
    \/ \E f \in Faults : SubmitFault(f)
    \/ \E f \in Faults : DetectionFault(f)
    \/ \E f \in Faults : MonitorFault(f)
    \/ AskReturn

SpecAsk == InitAskSpec /\ [][NextAsk]_vars

\* One call after another of ask_question with one question, run to its
\* end.  A step that sends a command either gets the reply or, the reply
\* missing, stays in the read loop of _send_command; the thread is never
\* stopped, so a step that can be taken is taken (weak fairness of the
\* steps of the call).
NextAskLive ==
    \/ \E sp \in SystemPrompts : AskQuestion("What is 2+2?", sp)
    \/ \E ok \in BOOLEAN : WaitGetDocument(ok)
    \/ \E n \in {0, 1} : WaitPoll(n)
    \/ Focus
    \/ TypeChar
    \/ EnterDown
    \/ EnterUp
    \/ \E ch \in BOOLEAN : DetectPageChange(ch)
    \/ \E ho \in BOOLEAN, n \in {0} \cup Nodes : FindQuestionElement(ho, n)
    \/ \E n \in {0} \cup Nodes : FindResponseElement(n)
    \/ \E a, b \in BOOLEAN : DebugTexts(a, b)
    \/ \E cur \in {NoText, [none |-> FALSE, value |-> "4"],
                    [none |-> FALSE, value |-> "Loading"]} : MonitorPoll(cur)
    \/ MonitorTimeout
    \/ Sanitize
    \/ \E f \in Faults : WaitFault(f)
    \/ \E f \in Faults : SubmitFault(f)
    \/ \E f \in Faults : DetectionFault(f)
    \/ \E f \in Faults : MonitorFault(f)
    \/ AskReturn

SpecAskLive ==
    InitAskSpec /\ [][NextAskLive \/ ReplyMissing]_vars /\ WF_vars(NextAskLive)

\* the sanitizer applied to inputs drawn from Questions and Answers
InitText ==
    /\ UnconnectedClient
    /\ InitAsk
    /\ DetectAtRest
    /\ LocateAtRest
    /\ fnPc = "input"
    /\ fnQuestion \in Questions \cup {""}
    /\ fnText \in Answers
    /\ fnCleaned = ""
    /\ fnValid = FALSE
    /\ fnComplete = FALSE

NextText ==
    \/ CleanRoundTrip
    \/ Validate
    \/ Classify

SpecText == InitText /\ [][NextText]_vars

\* phase 1 on pages with and without an earlier conversation turn
InitDetectSpec ==
    ConnectedClient /\ InitAsk /\ InitFn /\ InitDetect /\ LocateAtRest

NextDetect ==
    \/ DetectStart
    \/ \E pg \in Pages, notified \in BOOLEAN : PageMutates(pg[1], pg[2], notified)
    \/ IntervalCheck
    \/ TimeoutFires
    \/ StabilizeFires
    \/ DetectReturn

SpecDetect == InitDetectSpec /\ [][NextDetect]_vars

\* phases 2 and 3 on the pages of Documents
InitLocateSpec ==
    ConnectedClient /\ InitAsk /\ InitFn /\ DetectAtRest /\ InitLocate

NextLocate ==
    \/ \E evaluated \in BOOLEAN, requested \in BOOLEAN :
           FindQuestion(evaluated, requested)
    \/ \E textRead \in BOOLEAN : MeasureQuestion(textRead)
    \/ \E textRead \in BOOLEAN, described \in BOOLEAN, probe1 \in BOOLEAN,
          probe2 \in BOOLEAN, parentFound \in BOOLEAN :
           WalkLevel(textRead, described, probe1, probe2, parentFound)
    \/ \E resolved \in BOOLEAN, called \in BOOLEAN, requested \in BOOLEAN :
           FindWithinParent(resolved, called, requested)

SpecLocate == InitLocateSpec /\ [][NextLocate]_vars

----------------------------------------------------------------------------
(* Properties of the protocol client, checked under Spec *)

\* the commands that were given an id by _send_command, in call order
AutoSent == SelectSeq(sent, LAMBDA e : e.auto)

\* C1: for any N sequential _send_command calls given a command without an
\* 'id', the ids assigned are exactly 1..N in call order, and message_id
\* is N+1 afterwards.
C1_IdsAreOneToN ==
    /\ \A k \in 1..Len(AutoSent) : AutoSent[k].id = k
    /\ message_id = Len(AutoSent) + 1

\* three commands without an id have been sent, by connect() and by a caller
C1_Witness ==
    /\ Len(AutoSent) >= 3
    /\ AutoSent[3].by = "user"
    /\ AutoSent[3].id = 3
    /\ message_id = 4

\* C2: _send_command returns only a message whose 'id' equals the id of the
\* command it just sent; every message read before it (an event, or a reply
\* with another id) is dropped with the call still waiting, and the call
\* has no result until the matching reply arrives.
C2_ReturnsOnlyMatchingReply ==
    \A c \in Callers :
        /\ pcSend[c] = "returned" =>
              /\ response[c].hasId
              /\ response[c].id = command_id[c]
              /\ response[c] = lastRead[c]
        /\ pcSend[c] = "recv" =>
              /\ response[c] = NoMsg
              /\ ~(lastRead[c].hasId /\ lastRead[c].id = command_id[c])

\* a caller's command with id 2 has returned its reply while id 1 was
\* also in use on the channel
C2_Witness ==
    /\ pcSend["user"] = "returned"
    /\ command_id["user"] = 2
    /\ response["user"] = Reply(2, FALSE)
    /\ \E k \in 1..Len(sent) : sent[k].by = "user" /\ sent[k].id = 1

\* C11: when the channel is closed or yields malformed data during
\* _send_command, the call fails with ConnectionError (and is not retried).
C11_FaultIsConnectionError ==
    pcSend["user"] = "raised" /\ command_id["user"] # 0 =>
        /\ sendError["user"] = "ConnectionError"
        /\ sent[Len(sent)].by = "user"
        /\ sent[Len(sent)].id = command_id["user"]

\* a direct call on the client: _send_command or get_page_text
DirectCall == (\E i \in PresetIds : UserSend(i)) \/ GetPageText

\* C16: on a client that is not connected (never connected, or closed),
\* _send_command, ask_question and get_page_text each raise ConnectionError
\* without sending anything on a channel and without changing message_id.
C16_UnconnectedCallsRaise ==
    [][ws = "None" =>
          /\ DirectCall =>
                /\ pcSend'["user"] = "raised"
                /\ sendError'["user"] = "ConnectionError"
          /\ AskUnconnected =>
                askPc' = "failed" /\ askError' = "ConnectionError"
          /\ DirectCall \/ AskUnconnected =>
                /\ sent' = sent
                /\ inbox' = inbox
                /\ message_id' = message_id
                /\ ws' = ws]_vars

\* a direct call was refused on a client that had been connected and closed
C16_Witness ==
    /\ ws = "None"
    /\ Len(sent) > 0
    /\ sent[Len(sent)] = Closed
    /\ pcSend["user"] = "raised"
    /\ sendError["user"] = "ConnectionError"
    /\ message_id = 3

\* C17: connect() fails with ConnectionError when the debug endpoint is
\* unreachable and with ElementNotFoundError when the endpoint answers but
\* no target's url contains the application host.
C17_ConnectFailureKinds ==
    [][/\ ConnectBegin("unreachable") => connectError' = "ConnectionError"
       /\ ConnectBegin("no_tab") => connectError' = "ElementNotFoundError"]_vars

\* the log positions of the commands that were given an id before position k
AutoBefore(k) == {j \in 1..(k - 1) : sent[j].auto}

\* C18 as claimed: the first command sent on each connection, a reconnect
\* after close included, carries id 1, and each later command on the
\* connection carries the previous id plus 1.
C18_AsClaimed ==
    \A k \in 1..Len(sent) :
        sent[k].auto =>
            sent[k].id =
                IF k > 1 /\ sent[k - 1] = Opened THEN 1
                ELSE IF AutoBefore(k) = {} THEN 1
                ELSE 1 + sent[CHOOSE j \in AutoBefore(k) :
                                  \A i \in AutoBefore(k) : i <= j].id

\* C18: command ids are assigned sequentially per client object starting
\* at 1: the first command ever sent carries id 1 and each later command,
\* also the first one on a new connection, carries the previous id plus 1.
C18_IdsContinueAcrossConnections ==
    \A k \in 1..Len(sent) :
        sent[k].auto =>
            sent[k].id =
                IF AutoBefore(k) = {} THEN 1
                ELSE 1 + sent[CHOOSE j \in AutoBefore(k) :
                                  \A i \in AutoBefore(k) : i <= j].id

\* the first command on a connection opened after a close carries id 2
C18_Witness ==
    \E k \in 2..(Len(sent) - 1) :
        /\ sent[k] = Opened
        /\ sent[k - 1] = Closed
        /\ sent[k + 1].auto
        /\ sent[k + 1].id = 2

\* C19: after close() the client is unconnected whether or not it was
\* connected before, the channel's close was invoked exactly once if it was
\* connected, and calling close() again has no further effect.
C19_CloseDisconnectsOnce ==
    /\ Len(sent) > 0 /\ sent[Len(sent)] = Closed => ws = "None"
    /\ ws = "None" =>
          \A k \in 1..Len(sent) :
              sent[k] = Opened => \E j \in (k + 1)..Len(sent) : sent[j] = Closed
    /\ \A k \in 1..Len(sent) :
          sent[k] = Closed =>
              /\ k > 1
              /\ sent[k - 1] # Closed
              /\ \E j \in 1..(k - 1) : sent[j] = Opened
              /\ k < Len(sent) => sent[k + 1] = Opened

\* close() ended a connection after its screenshot command got a reply
C19_Witness ==
    /\ ws = "None"
    /\ closePc = "idle"
    /\ Len(sent) > 1
    /\ sent[Len(sent)] = Closed
    /\ sent[Len(sent) - 1].method = "Page.captureScreenshot"
    /\ pcSend["close"] = "returned"

\* C40: when connect() raises, at whatever step, the client is left
\* unconnected (ws is None), so that a later ask_question or _send_command
\* fails with ConnectionError instead of using the connection
C40_FailedConnectLeavesNoSocket ==
    connectPc = "failed" =>
        /\ ws = "None"
        /\ \A c \in Callers : pcSend[c] # "recv"

\* C36: when every command it sends gets its matching reply, every
\* ask_question call ends, by returning a string or by raising: the input
\* search makes at most 25 polls for each of at most 5 selectors and the
\* monitoring loop stops at its deadline; a call whose command gets no
\* matching reply stays inside _send_command for ever
C36_EveryCallTerminates ==
    /\ (askPc # "idle") ~> (askPc \in {"done", "failed", "blocked"})
    /\ [](askPc = "blocked" => [](askPc = "blocked"))
    /\ [](polls < 25 /\ selector <= 5 /\ pollCount <= MaxPolls)
    /\ [](askPc = "done" => askError = "none")
    /\ [](askPc = "failed" => askError # "none")

\* a call that polled the response until the deadline of the monitoring
\* loop has ended, here by raising
C36_Witness ==
    /\ askPc = "failed"
    /\ pollCount = MaxPolls
    /\ askError = "TimeoutError"

----------------------------------------------------------------------------
(* Properties of the monitor on its own, checked under SpecMonitor *)

\* C37: when _monitor_response_completion returns a completed result, the
\* six most recent polls all observed exactly the returned text
C37_LastSixPollsSawResult ==
    (askPc = "sanitize" /\ verdict = "complete")
        => /\ final_response = last_text
           /\ same_polls >= StableChecks

\* C38: at every poll boundary last_length is the length of last_text and
\* the greatest length observed so far, and stable_count lies in 0..5;
\* last_length never decreases; and a returned text, complete or partial,
\* has the greatest length observed
C38_MonitorKeepsLongest ==
    /\ [](askPc = "monitor" =>
              /\ last_length = Len(last_text)
              /\ last_length = max_observed
              /\ stable_count \in 0..(StableChecks - 1))
    /\ [][last_length' >= last_length]_vars
    /\ [](askPc = "sanitize" =>
              /\ verdict \in {"complete", "partial"}
              /\ Len(final_response) = max_observed)

\* a partial result returned after the last poll saw something else than
\* the longest text
C38_Witness ==
    /\ askPc = "sanitize"
    /\ verdict = "partial"
    /\ same_polls = 0
    /\ pollCount > 1
    /\ Len(final_response) = max_observed

----------------------------------------------------------------------------
(* Properties of overlapping _send_command calls, checked under SpecOverlap *)

\* the call of c waits for a reply that is gone: every command sent under
\* its id has been replied to and no such reply is left on the channel
ReplyGone(c) ==
    /\ pcSend[c] = "recv"
    /\ \A k \in DOMAIN sent : sent[k].id = command_id[c] => k \in answered
    /\ \A i \in DOMAIN inbox : ~IsOurResponse(inbox[i], command_id[c])

\* the call of d has read the reply to the command of c and dropped it
DiscardedBy(d, c) ==
    /\ d # c
    /\ lastRead[d].hasId
    /\ lastRead[d].id = command_id[c]
    /\ command_id[d] # command_id[c]

\* C35: a reply is read and discarded by a call that did not send its
\* command only in a step taken while two calls are in flight, so with at
\* most one call in flight that never happens; and once it has happened
\* the sender of that command stays blocked in its read loop for ever
C35_DiscardedReplyBlocksSender ==
    /\ [][\A c \in Callers :
             (~ReplyGone(c) /\ ReplyGone(c)')
                 => \E d \in Callers :
                        /\ pcSend[d] = "recv"
                        /\ pcSend[c] = "recv"
                        /\ DiscardedBy(d, c)']_vars
    /\ \A c \in Callers : [](ReplyGone(c) => [](pcSend[c] = "recv"))

\* two calls overlap and one has read and discarded the other's reply
C35_Witness ==
    \E c, d \in Callers :
        /\ ReplyGone(c)
        /\ pcSend[d] = "recv"
        /\ DiscardedBy(d, c)

----------------------------------------------------------------------------
(* Properties of ask_question and its monitor, checked under SpecAsk *)

\* a text as a case-insensitive, whitespace-insensitive comparison sees it
Normalized(s) == Lower(CollapseSpaces(Strip(s)))

\* C3: for every ask_question call that returns a value, the returned text
\* is not equal to the submitted question under case-insensitive,
\* whitespace-insensitive comparison.
C3_ResultIsNotTheQuestion ==
    askPc = "done" => Normalized(askResult) # Normalized(question)

\* the poll observed text that is the recorded text, a text having been
\* recorded
IdenticalPoll(obs) == ~obs.none /\ obs.value = last_text /\ last_text # ""

\* the poll observed text longer than the recorded length
LongerPoll(obs) == ~obs.none /\ Len(obs.value) > last_length

\* C4 as claimed: each poll whose text is identical to the previously
\* recorded text increments stable_count by exactly 1, and any poll whose
\* text is longer than the recorded length resets stable_count to 0.
C4_AsClaimed ==
    [][\A obs \in Observations :
          MonitorPoll(obs) =>
              /\ IdenticalPoll(obs) => stable_count' = stable_count + 1
              /\ LongerPoll(obs) => stable_count' = 0]_vars

\* C4: each poll whose non-empty text is identical to the recorded text
\* increments stable_count by exactly 1, except the poll that brings it to
\* 6 with a text the classifier finds incomplete, which sets it to 0; a
\* poll whose text is longer than the recorded length resets it to 0; and
\* stable_count never exceeds 6.
C4_StableCountSteps ==
    [][\A obs \in Observations :
          MonitorPoll(obs) =>
              /\ IdenticalPoll(obs) =>
                    stable_count' =
                        IF /\ stable_count + 1 >= StableChecks
                           /\ ~is_response_complete(obs.value, question)
                        THEN 0
                        ELSE stable_count + 1
              /\ LongerPoll(obs) => stable_count' = 0
              /\ stable_count' <= StableChecks]_vars

\* the monitor is one identical poll away from consulting the classifier
C4_Witness ==
    /\ askPc = "monitor"
    /\ stable_count = StableChecks - 1
    /\ last_text # ""
    /\ pollCount > StableChecks

\* the text holds an odd number of fence markers
OddFences(text) == Count(text, Fence) % 2 = 1

\* C5 as claimed: for every code-style question the monitor never signals
\* completion while the observed text holds an odd number of fence markers.
C5_AsClaimed ==
    verdict = "complete" /\ IsCodeQuestion(question)
        => ~OddFences(final_response)

\* C5: for a code-style question the monitor never signals completion on a
\* text with an odd number of fence markers, unless the question is also
\* math-style and the text contains a digit.
C5_NoCompletionInsideFence ==
    /\ verdict = "complete"
    /\ IsCodeQuestion(question)
    /\ ~(IsMathQuestion(question) /\ HasDigit(final_response))
    => ~OddFences(final_response)

\* a code-style question completed on a text whose fence is closed
C5_Witness ==
    /\ verdict = "complete"
    /\ question = "Write a function that adds two numbers"
    /\ Contains(final_response, Fence)
    /\ ~OddFences(final_response)

\* the poll is the stable check of a digit-bearing text for a math question
MathStableCheck(obs) ==
    /\ stable_count + 1 = StableChecks
    /\ IdenticalPoll(obs)
    /\ HasDigit(obs.value)
    /\ IsMathQuestion(question)

\* C6 as claimed: for a math-style question a text containing a digit is
\* classified complete on the poll where stable_count first reaches 6.
C6_AsClaimed ==
    [][\A obs \in Observations :
          MathStableCheck(obs) /\ MonitorPoll(obs)
              => verdict' = "complete" /\ final_response' = obs.value]_vars

\* C6: for a math-style question a text that contains a digit and is not
\* the question itself (trimmed, case-insensitive) is classified complete
\* on the poll where stable_count reaches 6.
C6_MathOverrideCompletes ==
    [][\A obs \in Observations :
          /\ MathStableCheck(obs)
          /\ MonitorPoll(obs)
          /\ Lower(Strip(obs.value)) # Lower(Strip(question))
          => /\ verdict' = "complete"
             /\ final_response' = obs.value
             /\ stable_count' = StableChecks]_vars

\* the one-character answer to a math question was classified complete
C6_Witness ==
    /\ verdict = "complete"
    /\ IsMathQuestion(question)
    /\ final_response = "4"
    /\ stable_count = StableChecks

\* the call is over and its monitor ended on the deadline with a recorded
\* text longer than the floor
TimedOutWithLongText ==
    /\ askPc \in {"done", "failed"}
    /\ Cmd("DOM.resolveNode", "debug") \in issued
    /\ response_node_id # question_node_id
    /\ verdict # "complete"
    /\ Len(last_text) > PartialFloor

\* C7 as claimed: if the monitor's deadline is reached while the last
\* recorded text is longer than 50 characters, ask_question returns that
\* text (as the monitor gave it, or as the sanitizer cleaned it) rather
\* than failing.
C7_AsClaimed ==
    TimedOutWithLongText =>
        /\ askPc = "done"
        /\ askResult \in {last_text, clean_response_text(last_text, question)}

\* C7: if the monitor's deadline is reached while the last recorded text is
\* longer than 50 characters, the monitor returns that text as a partial
\* result; ask_question returns its cleaned form when that passes
\* validation, and raises TimeoutError otherwise.
C7_PartialResultIsSanitized ==
    /\ verdict = "partial" =>
          final_response = last_text /\ Len(last_text) > PartialFloor
    /\ TimedOutWithLongText =>
          /\ verdict = "partial"
          /\ LET cleaned_response == clean_response_text(last_text, question)
             IN IF validate_response(cleaned_response, question)
                THEN askPc = "done" /\ askResult = cleaned_response
                ELSE askPc = "failed" /\ askError = "TimeoutError"

\* a partial result came back with the question cleaned off its front
C7_Witness ==
    /\ askPc = "done"
    /\ verdict = "partial"
    /\ question = "Name a city"
    /\ StartsWith(last_text, question)
    /\ askResult = "Lyon is a city in France on the Rhone and the Saone rivers"

\* C8: if phase 1 reports that no page change was detected, ask_question
\* fails (with TimeoutError) and no command of phase 2 or of any later
\* phase is issued in that call.
C8_NoChangeStopsTheCall ==
    /\ Cmd("Runtime.evaluate", "phase1") \in issued /\ ~page_changed =>
          askPc = "failed" /\ askError = "TimeoutError"
    /\ ~page_changed => \A c \in issued : c.phase \notin DetectionPhases

\* phase 1 ran, saw no change, and the call failed
C8_Witness ==
    /\ Cmd("Runtime.evaluate", "phase1") \in issued
    /\ ~page_changed
    /\ askPc = "failed"
    /\ Cmd("Input.dispatchKeyEvent keyUp", "submit") \in issued

\* C12: a connection-level fault in any phase of ask_question ends the
\* call with ConnectionError: once a command of the call has raised a
\* transport exception the call has failed with ConnectionError, and no
\* further command is sent
C12_FaultEndsCallWithConnectionError ==
    [][/\ faulted' => askPc' = "failed" /\ askError' = "ConnectionError"
       /\ faulted /\ faulted' => issued' = issued]_vars

\* the phases of response detection that can find nothing: page change,
\* question element, response element, monitoring, validation
FailingPhases == {"phase1", "phase2", "phase3", "monitor", "sanitize"}

\* one failure kind per phase, named after what the phase did not find
KindOfPhase ==
    [phase1 |-> "NoPageChange", phase2 |-> "QuestionNotFound",
     phase3 |-> "ResponseNotFound", monitor |-> "TimeoutError",
     sanitize |-> "ValidationError"]

\* C13 as stated: each failing phase of ask_question is surfaced as a
\* distinct failure kind, so the error raised tells which phase failed
C13_AsClaimed ==
    [][(askPc \in FailingPhases /\ askPc' = "failed")
           => askError' = KindOfPhase[askPc]]_vars

\* C13 amended: every failing phase of response detection (no page
\* change, question or response element not found, monitor timeout,
\* validation failure) is surfaced as the same kind, TimeoutError: the
\* error raised does not tell the phases apart
C13_OneKindForEveryPhase ==
    [][(askPc \in FailingPhases /\ askPc' = "failed")
           => askError' = "TimeoutError"]_vars

\* a validation failure after a text was retrieved, raised as TimeoutError
C13_Witness ==
    /\ askPc = "failed"
    /\ askError = "TimeoutError"
    /\ verdict \in {"complete", "partial"}
    /\ final_response # ""
    /\ ~faulted

\* the positions of ask_question inside wait_for_response_smart
DetectionPcs == FailingPhases \cup {"debug"}

\* C14: whenever response detection yields no response, ask_question
\* raises TimeoutError ("No response received within <timeout> seconds")
\* and returns no value: a call that fails inside response detection
\* fails with TimeoutError and has no result
C14_NoResponseRaisesTimeoutError ==
    [][(askPc \in DetectionPcs /\ askPc' = "failed")
           => askError' = "TimeoutError" /\ askResult' = ""]_vars

\* a focus, character or Enter command is among the commands of the call
InputEventIssued ==
    \E c \in issued : c.phase \in {"focus", "type", "submit"}

\* C15: if none of the five input selectors yields a node, ask_question
\* raises InteractionError and no focus, character or Enter event has been
\* dispatched in that call; InteractionError is raised only after the
\* wait for the fifth selector came back empty
C15_NoInputRaisesInteractionError ==
    [][/\ (askPc = "find_input" /\ askPc' # "find_input"
               /\ input_node_id' = 0)
           => /\ askPc' = "failed"
              /\ askError' = "InteractionError"
              /\ selector = NumSelectors
       /\ askError' = "InteractionError"
           => /\ askPc = "find_input"
              /\ input_node_id' = 0
              /\ ~InputEventIssued'
              /\ dispatched' = <<>>]_vars

\* the search polled for a node, found none, and the call has failed
C15_Witness ==
    /\ askPc = "failed"
    /\ askError = "InteractionError"
    /\ Cmd("DOM.querySelector", "input") \in issued
    /\ ~InputEventIssued
    /\ dispatched = <<>>

\* the commands of steps 2-4 of a whole submission of the text s: DOM.focus,
\* one 'char' event per character of s in string order, Enter keyDown,
\* Enter keyUp
Submission(s) ==
    [i \in 1..(Len(s) + 3) |->
        IF i = 1 THEN FocusEvent
        ELSE IF i <= Len(s) + 1
        THEN [method |-> "Input.dispatchKeyEvent", type |-> "char",
              text |-> SubSeq(s, i - 1, i - 1)]
        ELSE IF i = Len(s) + 2 THEN EnterEvent("keyDown")
        ELSE EnterEvent("keyUp")]

\* a command of response detection is among the commands of the call
DetectionStarted == \E c \in issued : c.phase \in DetectionPcs

\* C20: in every ask_question call the commands of steps 2-4 are issued in
\* the order DOM.focus, one 'char' event per character of the augmented
\* question in string order, one Enter keyDown, one Enter keyUp, and the
\* first detection command comes only after all of them; nothing is
\* dispatched twice, so the question is submitted at most once per call
C20_SubmissionOrder ==
    /\ Len(dispatched) <= Len(modified_question) + 3
    /\ dispatched = SubSeq(Submission(modified_question), 1, Len(dispatched))
    /\ DetectionStarted => dispatched = Submission(modified_question)
    /\ InputEventIssued => input_node_id # 0

\* a submitted call that has sent its first detection command
C20_Witness ==
    /\ askPc = "phase2"
    /\ DetectionStarted
    /\ Len(modified_question) > 10
    /\ dispatched = Submission(modified_question)
    /\ dispatched[Len(dispatched) - 1] = EnterEvent("keyDown")

\* the poll is the one that brings stable_count to 6: the classifier is
\* consulted on its text
ClassifierPoll(obs) == IdenticalPoll(obs) /\ stable_count + 1 = StableChecks

\* C22: the completeness classifier is consulted only on a poll where
\* stable_count reaches 6: the monitor completes on no other poll, and
\* stable_count is below 6 whenever a poll starts.  If the classifier
\* answers not complete, stable_count is reset to 0 and polling goes on;
\* stable_count grows only by 1 and only on an identical poll, so 6
\* further identical polls are needed before the next consultation
C22_ClassifierOnlyAtSix ==
    [][\A obs \in Observations :
          MonitorPoll(obs) =>
              /\ stable_count < StableChecks
              /\ verdict' = "complete" =>
                    ClassifierPoll(obs) /\ stable_count' = StableChecks
              /\ ClassifierPoll(obs) =>
                    IF is_response_complete(obs.value, question)
                    THEN verdict' = "complete"
                    ELSE /\ stable_count' = 0
                         /\ askPc' = "monitor"
                         /\ verdict' = "none"
              /\ stable_count' > stable_count =>
                    IdenticalPoll(obs) /\ stable_count' = stable_count + 1]_vars

\* the last poll before the deadline was the second consultation of the
\* classifier on a text it finds incomplete: twelve identical polls after
\* the one that recorded the text
C22_Witness ==
    /\ askPc = "monitor"
    /\ pollCount = 2 * StableChecks + 1
    /\ stable_count = 0
    /\ last_text = "4"
    /\ last_length = 1
    /\ ~is_response_complete(last_text, question)

\* the poll observed a text that differs from the recorded text and is not
\* longer than the recorded length
ChangedNotLongerPoll(obs) ==
    ~obs.none /\ obs.value # last_text /\ Len(obs.value) <= last_length

\* C23: whenever a poll observes text that differs from last_text without
\* being longer than last_length (an edit of equal length, or a shorter
\* text), stable_count is reset to 0 and last_text becomes the observed text
C23_ChangedTextResets ==
    [][\A obs \in Observations :
          ChangedNotLongerPoll(obs) /\ MonitorPoll(obs)
              => stable_count' = 0 /\ last_text' = obs.value]_vars

C34_ProbeFaultIsNotFatal ==
    [][\A fault \in Faults :
          (WaitFault(fault) \/ DetectionFault(fault) \/ MonitorFault(fault))
              => \/ askPc' # "failed"
                 \/ askError' \in {"TimeoutError", "InteractionError"}]_vars

----------------------------------------------------------------------------
(* Properties of the sanitizer functions, checked under SpecText *)

\* the answer as the round trip is to give it back
CollapsedAnswer == Strip(CollapseSpaces(fnText))

\* C9 as claimed: for any question q and answer, _clean_response_text on
\* q + ' ' + answer + ' Copy code Show thinking' with question q returns
\* exactly the answer with whitespace runs collapsed and trimmed.
C9_AsClaimed == fnPc = "cleaned" => fnCleaned = CollapsedAnswer

\* C9: the round trip returns exactly the collapsed and trimmed answer for
\* every answer whose collapsed form contains none of the UI captions the
\* sanitizer removes.
C9_RoundTrip ==
    /\ fnPc = "cleaned"
    /\ \A k \in 1..Len(UiElements) : ~Contains(CollapsedAnswer, UiElements[k])
    => fnCleaned = CollapsedAnswer

\* an answer with a whitespace run came back collapsed, the question and
\* the captions gone
C9_Witness ==
    /\ fnPc = "cleaned"
    /\ fnQuestion = "What  is 2+2? "
    /\ fnText = "x\t y"
    /\ fnCleaned = "x y"

\* C10 as claimed: for a math-style question _validate_response accepts
\* every response that contains a digit, whatever the other rules decide.
C10_AsClaimed ==
    fnPc = "validated" /\ IsMathQuestion(fnQuestion) /\ HasDigit(fnText)
        => fnValid

\* C10: for a math-style question _validate_response accepts every
\* response that contains a digit, is at most 10000 characters long, is not
\* the question (trimmed, case-insensitive) and is not an echo of it (the
\* question inside a response shorter than twice its length); the too-short
\* and placeholder rules do not apply to it.
C10_MathOverride ==
    /\ fnPc = "validated"
    /\ IsMathQuestion(fnQuestion)
    /\ HasDigit(fnText)
    /\ Len(fnText) <= MaxResponseLen
    /\ Lower(Strip(fnText)) # Lower(Strip(fnQuestion))
    /\ ~(/\ Contains(Lower(fnText), Lower(fnQuestion))
         /\ Len(fnText) < Len(fnQuestion) * 2)
    => fnValid

\* the one-character answer to a math question was accepted
C10_Witness ==
    /\ fnPc = "validated"
    /\ fnQuestion = "What is 2+2?"
    /\ fnText = "4"
    /\ fnValid

\* C31: for a question that is not code-style, a text that is not the
\* question, whose trimmed length is strictly between 2 and 50, that has at
\* most 5 words and none of 'loading', 'wait', 'processing', is classified
\* complete
C31_ShortAnswerIsComplete ==
    /\ fnPc = "classified"
    /\ ~IsCodeQuestion(fnQuestion)
    /\ Lower(Strip(fnText)) # Lower(Strip(fnQuestion))
    /\ Len(Strip(fnText)) > 2
    /\ Len(Strip(fnText)) < 50
    /\ WordCount(Strip(fnText)) <= 5
    /\ \A word \in {"loading", "wait", "processing"} :
           ~Contains(Lower(fnText), word)
    => fnComplete

\* C32: the classifier never reports complete for an empty text or for a
\* text equal to the question (trimmed, case-insensitive), whatever the
\* style of the question, also for a math-style question whose own text
\* has digits
C32_QuestionIsNeverComplete ==
    /\ fnPc = "classified"
    /\ fnText = "" \/ Lower(Strip(fnText)) = Lower(Strip(fnQuestion))
    => ~fnComplete

\* the echo of a math-style question with digits, in another case, was
\* classified incomplete
C32_Witness ==
    /\ fnPc = "classified"
    /\ fnQuestion = "What is 2+2? "
    /\ fnText = "what is 2+2?"
    /\ ~fnComplete

\* the math override of the validator applies to the inputs
MathOverrideApplies ==
    /\ \E word \in {"what is", "+", "-", "*", "/", "calculate", "solve"} :
           Contains(Lower(fnQuestion), word)
    /\ HasDigit(fnText)
    /\ Len(Strip(fnText)) >= 1

----------------------------------------------------------------------------
(* Properties of the phase 1 detector, checked under SpecDetect *)

\* C24: if text growth of more than 10 characters or a non-empty
\* user-query marker is observed before the overall timeout, the detector
\* resolves true, after the stabilization delay; it resolves false only
\* when no such change was observed before the timeout
C24_ObservedChangeResolvesTrue ==
    /\ (changeDetected /\ detectedAt < DetectTimeout /\ promise # "pending")
           => promise = "true"
    /\ (promise = "true" /\ stabilizeDue = -1)
           => clock >= detectedAt + ConversationDelay
    /\ detPc = "returned" => detectResult = (promise = "true")

\* C25: on an idle page, where nothing changes after submission, phase 1
\* resolves false at its overall timeout, whatever the page showed at the
\* start, an earlier question/answer turn included
C25_IdlePageResolvesFalse ==
    (~mutated /\ promise # "pending")
        => promise = "false" /\ clock >= DetectTimeout

----------------------------------------------------------------------------
(* Properties of phases 2 and 3, checked under SpecLocate *)

\* the text of element i of the page
PageText(i) == textContent(dom, i)

\* the elements of the page
PageElements == 1..Len(dom)

\* element j lies inside element n: n is reached from j by parentElement
RECURSIVE Inside(_, _)
Inside(n, j) ==
    LET up == parentElement(dom, j)
    IN up # 0 /\ (up = n \/ Inside(n, up))

\* the elements whose trimmed text is the question, and those containing it
ExactElements == {i \in PageElements : Strip(PageText(i)) = questionText}
ContainingElements == {i \in PageElements : Contains(PageText(i), questionText)}

\* no element of S has a shorter text than element i
ShortestOf(i, S) ==
    i \in S /\ \A j \in S : Len(PageText(i)) <= Len(PageText(j))

\* C26 as stated: an element whose trimmed text equals the question when
\* one exists; otherwise the shortest containing element under 10 times the
\* question length, or the shortest one when all are larger; not found
\* exactly when no element contains the question
C26_AsClaimed ==
    locPc # "phase2" =>
        LET small == {i \in ContainingElements :
                         Len(PageText(i)) < TooBig * Len(questionText)}
        IN /\ ExactElements # {} => start_node_id \in ExactElements
           /\ (ExactElements = {} /\ small # {}) =>
                  ShortestOf(start_node_id, small)
           /\ (ExactElements = {} /\ ContainingElements # {} /\ small = {}) =>
                  ShortestOf(start_node_id, ContainingElements)
           /\ start_node_id = 0 <=> ContainingElements = {}

\* element i is the one phase 2 has to return: the first whose trimmed
\* text is the trimmed question, or, when there is none, the first of the
\* shortest elements whose text contains the question
IsQuestionElement(i) ==
    LET trimmed == {j \in PageElements :
                       Strip(PageText(j)) = Strip(questionText)}
    IN IF trimmed # {}
       THEN i \in trimmed /\ \A j \in trimmed : i <= j
       ELSE /\ ShortestOf(i, ContainingElements)
            /\ \A j \in ContainingElements :
                   Len(PageText(j)) = Len(PageText(i)) => i <= j

\* C26, amended: when the script and the node lookup succeed, phase 2
\* returns the first element whose trimmed text equals the trimmed question
\* if there is one, otherwise the shortest element containing the question
\* (the first of them in document order); it reports not found when there
\* is neither, and whenever the script or the node lookup fails
C26_ReturnsQuestionElement ==
    [][\A evaluated \in BOOLEAN, requested \in BOOLEAN :
          FindQuestion(evaluated, requested) =>
              IF evaluated /\ requested
                 /\ \E i \in PageElements : IsQuestionElement(i)
              THEN IsQuestionElement(start_node_id')
              ELSE start_node_id' = 0]_vars

\* phase 2 fell back to the smallest of candidates that are all 10 times
\* longer than the question
C26_Witness ==
    /\ locPc = "phase3"
    /\ ExactElements = {}
    /\ \A i \in ContainingElements :
           Len(PageText(i)) >= TooBig * Len(questionText)
    /\ ShortestOf(start_node_id, ContainingElements)

\* C39 as stated: when no element's trimmed text equals the question, the
\* anchor phase 2 chose is a containing element of minimum text length
C39_AsClaimed ==
    (locPc # "phase2" /\ start_node_id # 0 /\ ExactElements = {})
        => ShortestOf(start_node_id, ContainingElements)

\* C39, amended: when no element's trimmed text equals the trimmed question,
\* the anchor phase 2 chose is a containing element of minimum text length,
\* whether or not elements at or over 10 times the question length are
\* among the containing ones: the bound never changes the choice
C39_BoundNeverChangesChoice ==
    [][(/\ locPc = "phase2"
        /\ start_node_id' # 0
        /\ \A i \in PageElements : Strip(PageText(i)) # Strip(questionText))
           => /\ ShortestOf(start_node_id', ContainingElements)
              /\ \A j \in ContainingElements :
                     Len(PageText(j)) = Len(PageText(start_node_id'))
                         => start_node_id' <= j]_vars

\* an anchor chosen among containing elements of which some are under the
\* bound and some are not
C39_Witness ==
    /\ locPc = "phase3"
    /\ \A i \in PageElements : Strip(PageText(i)) # Strip(questionText)
    /\ \E i \in ContainingElements :
           Len(PageText(i)) >= TooBig * Len(questionText)
    /\ \E i \in ContainingElements :
           Len(PageText(i)) < TooBig * Len(questionText)
    /\ ShortestOf(start_node_id, ContainingElements)

\* the promotion criteria as the specification words them
PromotedByClass(i) ==
    \E keyword \in {"conversation", "history", "container"} :
        Contains(dom[i].class, keyword)

PromotedByLength(i) == 10 * Len(PageText(i)) > 12 * question_length

\* C27: the tree ascent returns a node only if the node met a promotion
\* criterion (a conversation/history/container keyword in its class list,
\* or a text more than 20% longer than the question's) and passed a
\* verification; it examines at most 10 levels, and fails when no examined
\* node verifies
C27_OnlyVerifiedPromotion ==
    /\ level <= MaxLevels
    /\ \A v \in verifications :
           v.node = start_node_id \/ Inside(v.node, start_node_id)
    /\ common_parent_id # 0 =>
           /\ level < MaxLevels
           /\ PromotedByClass(common_parent_id)
              \/ PromotedByLength(common_parent_id)
           /\ \E v \in verifications :
                  v.node = common_parent_id /\ v.result
    /\ (\A v \in verifications : ~v.result) =>
           common_parent_id = 0 /\ locPc \notin {"within", "found"}
    /\ locPc \in {"within", "found"} => common_parent_id # 0

\* the ascent accepted the node at the last level it examines
C27_Witness ==
    /\ locPc = "within"
    /\ level = MaxLevels - 1
    /\ common_parent_id = current_node_id

\* element i has a descendant matching a response-container pattern
HasResponseDescendant(i) ==
    \E j \in PageElements :
        /\ Inside(i, j)
        /\ \/ dom[j].tag \in {"model-response", "message-content"}
           \/ Contains(dom[j].class, "response")

\* C28: a verification passes exactly when the node has a descendant
\* matching a response-container pattern, or its total text length is
\* strictly between 1 and 3 times the question length; it fails when the
\* node cannot be resolved or the probe errors
C28_VerificationRule ==
    \A v \in verifications :
        v.result <=>
            /\ v.probe
            /\ \/ HasResponseDescendant(v.node)
               \/ /\ Len(PageText(v.node)) > v.question_length
                  /\ Len(PageText(v.node)) < 3 * v.question_length

\* a node without response elements passed verification on its length
C28_Witness ==
    \E v \in verifications :
        v.probe /\ v.result /\ ~HasResponseDescendant(v.node)

\* C29: the common container the ascent returns is a proper ancestor of the
\* question element, never the question element itself
C29_ContainerIsProperAncestor ==
    common_parent_id # 0 =>
        /\ common_parent_id # start_node_id
        /\ Inside(common_parent_id, start_node_id)

\* the elements inside the container that the k-th response selector
\* matches and whose trimmed text is non-empty and is not the question
Eligible(k) ==
    {j \in PageElements :
        /\ Inside(common_parent_id, j)
        /\ Matches(dom[j], ResponseSelectors[k])
        /\ Strip(PageText(j)) # ""
        /\ Strip(PageText(j)) # questionText}

\* C30: the response node is the first element, by selector priority and
\* then document order, whose trimmed text is non-empty and is not the
\* submitted question; the phase fails if there is none
C30_FirstEligibleResponse ==
    locPc \in {"found", "failed"} /\ common_parent_id # 0 =>
        LET hits == {k \in 1..Len(ResponseSelectors) : Eligible(k) # {}}
        IN /\ hits = {} => located = 0
           /\ located # 0 => /\ hits # {}
                             /\ located = First(Eligible(First(hits)))

====
